---- MODULE Spec2Model ----
(***************************************************************************)
(* Model of the zenow backend: the per-mode inference-server controllers   *)
(* (LLMServer / EmbedServer / RerankServer), the model selection pipeline, *)
(* the parameter change pipeline and the chat pipeline, together with the  *)
(* parts of the config and session stores they read and write.             *)
(*                                                                         *)
(* Every pipeline call is a task.  A task moves in steps; one step is the  *)
(* code between two points at which something else can run: the awaits of *)
(* the coroutines, and the blocking calls (signal, wait, spawn, sleep,     *)
(* health request) of the controller methods, which run on worker threads. *)
(***************************************************************************)
EXTENDS Integers, Sequences, FiniteSets, TLC

(***************************************************************************)
(* Values                                                                  *)
(***************************************************************************)
Modes == {"llm", "embed", "rerank"}

MODEL_STATUS_NOT_STARTED == "not_started"
MODEL_STATUS_STARTING == "starting"
MODEL_STATUS_RUNNING == "running"
MODEL_STATUS_ERROR == "error"
MODEL_STATUS_STOPPED == "stopped"

\* Bounds of the model.  The health loop of start_server and the status loop
\* of _ensure_server_running take 30 turns each in the code (max_retries,
\* max_wait); the model takes them through fewer turns of the same loop.
max_retries == 2
max_wait == 2
MaxLaunch == 3     \* engine processes launched in one behaviour
MaxApply == 1      \* apply calls in one behaviour
MaxRespond == 1    \* respond calls in one behaviour
MaxChunks == 2     \* chunks of one streamed answer
MaxHistory == 4    \* messages in the store when the history window is taken

Tasks == {1, 2}

\* A path is the directory it lies in, the file's stem and suffix, and
\* whether the text of the path reaches the file through a link (a relative
\* or symlinked spelling of the same file).
NoPath == [dir |-> "", name |-> "", suffix |-> "", link |-> FALSE]

MkPath(d, n, s) == [dir |-> d, name |-> n, suffix |-> s, link |-> FALSE]

\* Path.resolve(): the canonical spelling of a path.
Resolve(p) == [p EXCEPT !.link = FALSE]

\* str.lower() on a file suffix.
Lower(s) == IF s = ".GGUF" THEN ".gguf" ELSE s

\* get_model_dir(mode): the mode's directory is named after the mode.
get_model_dir(mode) == mode

SFields == {"context_size", "threads", "gpu_layers", "batch_size"}
CFields == {"temperature", "repeat_penalty", "max_tokens"}
Fields == SFields \cup CFields

\* temperature and repeat_penalty are floats in the code; the model counts
\* them in tenths (0.7 is 7, 2.0 is 20).
EmptyReq == [f \in {} |-> 0]

VARIABLES
    process,             \* mode -> pid owned by the controller, 0 for None
    current_model,       \* mode -> model name, "" for None
    current_model_path,  \* mode -> path, NoPath for None
    status,              \* mode -> MODEL_STATUS_*
    error_message,       \* mode -> message, "" for None
    sparam,              \* mode -> server parameters of the controller
    cparam,              \* parameters of the llm client
    procs,               \* the engine processes that are alive
    nextPid,             \* pid the next spawned process gets
    files,               \* canonical paths of the files on disk
    servers,             \* manager: mode -> the controller registered for it
    clients,             \* manager: mode -> the client registered for it
    model_info,          \* config store: the model_info table (id = index)
    llm_parameters,      \* config store: the llm_parameters table
    sessions,            \* session store: the sessions table, by session id
    messages,            \* session store: the messages table
    calls,               \* number of apply and of respond calls made so far
    disk,                \* the download directory: its entries and its inodes
    active_downloads,    \* downloader: url -> the status of its download
    download_dir,        \* downloader: the directory it downloads into
    task                 \* task -> the call it runs and where it stands

vars == <<process, current_model, current_model_path, status, error_message,
          sparam, cparam, procs, nextPid, files, servers, clients, model_info,
          llm_parameters, sessions, messages, calls, task, disk, active_downloads,
          download_dir>>

ctlVars == <<process, current_model, current_model_path, status, error_message>>
dbVars == <<model_info, llm_parameters>>
chatVars == <<sessions, messages, calls>>
dlVars == <<disk, active_downloads, download_dir>>
regVars == <<servers, clients>>

\* The registries that ModelServerManager.__init__ fills: one controller and
\* one client for each mode.  A controller is named by its class and its port;
\* its fields are the entries of process, status, sparam, ... at its mode.
llm_port == 8051
embed_port == 8052
rerank_port == 8053

ServerOf(mode) ==
    CASE mode = "llm" -> [class |-> "LLMServer", port |-> llm_port]
      [] mode = "embed" -> [class |-> "EmbedServer", port |-> embed_port]
      [] mode = "rerank" -> [class |-> "RerankServer", port |-> rerank_port]

ClientOf(mode) ==
    CASE mode = "llm" -> [class |-> "LLMClient", port |-> llm_port]
      [] mode = "embed" -> [class |-> "EmbedClient", port |-> embed_port]
      [] mode = "rerank" -> [class |-> "RerankClient", port |-> rerank_port]

\* No controller and no client.
NoEntry == [class |-> "", port |-> 0]

InitRegistry ==
    /\ servers = [mode \in Modes |-> ServerOf(mode)]
    /\ clients = [mode \in Modes |-> ClientOf(mode)]

\* A request without a new message.
NoMsg == [role |-> "", content |-> <<>>]

NoResult == [success |-> FALSE, requires_restart |-> FALSE, why |-> ""]

IdleTask ==
    [op |-> "none", pc |-> "idle", mode |-> "llm", name |-> "", path |-> NoPath,
     url |-> "", req |-> EmptyReq, retries |-> 0, stopret |-> "", ret |-> FALSE,
     changed |-> FALSE, how |-> "", session |-> 0, msg |-> NoMsg,
     payload |-> <<>>, sent |-> <<>>, acc |-> <<>>, out |-> <<>>,
     max_tokens |-> 0, system_prompt_tokens |-> 0,
     fd |-> 0, downloaded |-> 0, total_size |-> 0, model_id |-> 0,
     servers |-> <<>>, visited |-> {}, got |-> NoEntry,
     text |-> <<>>, estimate |-> 0, download_url |-> "", signals |-> <<>>,
     original_download_dir |-> "", result |-> NoResult,
     pre |-> [process |-> 0, nextPid |-> 0, sparam |-> EmptyReq,
              cparam |-> EmptyReq, stored |-> EmptyReq, path |-> NoPath,
              status |-> "", alive |-> FALSE, msgs |-> 0, current |-> "",
              currents |-> {}, model |-> ""]]

Idle(t) == task[t].pc = "idle"
AllIdle == \A t \in Tasks : Idle(t)

\* Path(p).exists()
Exists(p) == p # NoPath /\ Resolve(p) \in files

Alive(pid) == \E p \in procs : p.pid = pid
AliveOf(mode) == {p \in procs : p.mode = mode}

\* LLMServer.get_status()["is_running"]
IsRunning(mode) == process[mode] # 0 /\ Alive(process[mode])

\* The names of the records of a mode that are marked current.
CurrentNames(mode) ==
    {model_info[i].model_name : i \in {j \in 1..Len(model_info) :
        model_info[j].mode = mode /\ model_info[j].is_current}}

Snapshot(mode) ==
    [process |-> process[mode], nextPid |-> nextPid, sparam |-> sparam[mode],
     cparam |-> cparam, stored |-> llm_parameters,
     path |-> current_model_path[mode], status |-> status[mode],
     alive |-> IsRunning(mode), msgs |-> Len(messages),
     current |-> IF CurrentNames(mode) = {} THEN ""
                 ELSE CHOOSE n \in CurrentNames(mode) : TRUE,
     currents |-> {i \in 1..Len(model_info) : model_info[i].is_current},
     model |-> current_model[mode]]

\* A call begins on a task that runs nothing.
NewTask(op, mode) ==
    [IdleTask EXCEPT !.op = op, !.mode = mode, !.pre = Snapshot(mode)]

Finish(tr, ok, restart, why) ==
    [tr EXCEPT !.pc = "done",
               !.result = [success |-> ok, requires_restart |-> restart,
                           why |-> why]]

(***************************************************************************)
(* The controller: LLMServer, and EmbedServer and RerankServer, whose      *)
(* start_server, stop_server, switch_model and update_parameters are the   *)
(* same code.                                                              *)
(***************************************************************************)

\* start_server returning True whatever happened: a mutant of StartReturn.
StartReturnTrue(tr, r) ==
    IF tr.op = "select" THEN [tr EXCEPT !.pc = "sel_started", !.ret = TRUE]
    ELSE IF tr.op = "apply" THEN [tr EXCEPT !.pc = "ap_resume", !.ret = TRUE]
    ELSE Finish([tr EXCEPT !.ret = TRUE], TRUE, FALSE, "")

\* Where a task goes when start_server returns r.
StartReturn(tr, r) ==
    IF tr.op = "select" THEN [tr EXCEPT !.pc = "sel_started", !.ret = r]
    ELSE IF tr.op = "apply" THEN [tr EXCEPT !.pc = "ap_resume", !.ret = r]
    ELSE Finish([tr EXCEPT !.ret = r], r, FALSE, "")

\* ModelServerManager.stop_all: the loop over self.servers.items().  The result
\* r of a stop is dropped and an exception is logged; the loop goes on to the
\* next controller either way.
StopAllNext(tr, r) ==
    IF tr.servers = <<>> THEN Finish(tr, TRUE, FALSE, "")
    ELSE [tr EXCEPT !.pc = "st_term", !.stopret = "ret",
                    !.mode = Head(tr.servers), !.servers = Tail(tr.servers),
                    !.visited = tr.visited \cup {Head(tr.servers)}]

\* Where a task goes when stop_server returns r: back into start_server
\* (which ignores r), or to the caller of stop.
StopReturn(tr, r) ==
    IF tr.stopret = "ss_launch" THEN [tr EXCEPT !.pc = "ss_launch"]
    ELSE IF tr.stopret = "ss_fail" THEN StartReturn(tr, FALSE)
    ELSE IF tr.op = "stop_all" THEN StopAllNext(tr, r)
    ELSE IF tr.op = "select" THEN [tr EXCEPT !.pc = "sel_stopped", !.ret = r]
    ELSE Finish([tr EXCEPT !.ret = r], r, FALSE, "")

\* start_server, lines 72-89: the file checks, and the decision to stop the
\* owned process first.
StartCheckOwnedNever(mode) == FALSE

StartCheckOwned(mode) == process[mode] # 0

StartCheck(t) ==
    LET tr == task[t]
        m == tr.mode
    IN  /\ tr.pc = "ss_check"
        /\ IF ~Exists(tr.path)
           THEN /\ status' = [status EXCEPT ![m] = MODEL_STATUS_ERROR]
                /\ error_message' = [error_message EXCEPT ![m] = "file_not_found"]
                /\ task' = [task EXCEPT ![t] = StartReturn(tr, FALSE)]
           ELSE IF Lower(tr.path.suffix) # ".gguf"
           THEN /\ status' = [status EXCEPT ![m] = MODEL_STATUS_ERROR]
                /\ error_message' = [error_message EXCEPT ![m] = "invalid_format"]
                /\ task' = [task EXCEPT ![t] = StartReturn(tr, FALSE)]
           ELSE /\ UNCHANGED <<status, error_message>>
                /\ task' = [task EXCEPT ![t] =
                       IF StartCheckOwned(m)
                       THEN [tr EXCEPT !.pc = "st_term", !.stopret = "ss_launch"]
                       ELSE [tr EXCEPT !.pc = "ss_launch"]]
        /\ UNCHANGED <<process, current_model, current_model_path, sparam,
                       cparam, procs, nextPid, files, regVars, dlVars, dbVars, chatVars>>

\* start_server, lines 91-93.
StartLaunch(t) ==
    LET tr == task[t]
        m == tr.mode
    IN  /\ tr.pc = "ss_launch"
        /\ status' = [status EXCEPT ![m] = MODEL_STATUS_STARTING]
        /\ current_model' = [current_model EXCEPT ![m] = tr.name]
        /\ current_model_path' = [current_model_path EXCEPT ![m] = tr.path]
        /\ task' = [task EXCEPT ![t] = [tr EXCEPT !.pc = "ss_popen"]]
        /\ UNCHANGED <<process, error_message, sparam, cparam, procs, nextPid,
                       files, regVars, dlVars, dbVars, chatVars>>

\* The command line of start_server, lines 97-108.
EngineArgs(mode, path) ==
    [pid |-> nextPid, mode |-> mode, path |-> path, args |-> sparam[mode]]

\* start_server, lines 113-118 and 142-146: the engine is spawned in a new
\* process group, or the executable is missing.
StartPopen(t) ==
    LET tr == task[t]
        m == tr.mode
    IN  /\ tr.pc = "ss_popen"
        /\ \/ /\ procs' = procs \cup {EngineArgs(m, tr.path)}
              /\ process' = [process EXCEPT ![m] = nextPid]
              /\ nextPid' = nextPid + 1
              /\ task' = [task EXCEPT ![t] = [tr EXCEPT !.pc = "ss_poll", !.retries = 0]]
              /\ UNCHANGED <<status, error_message>>
           \/ /\ status' = [status EXCEPT ![m] = MODEL_STATUS_ERROR]
              /\ error_message' = [error_message EXCEPT ![m] = "executable_not_found"]
              /\ task' = [task EXCEPT ![t] = StartReturn(tr, FALSE)]
              /\ UNCHANGED <<process, procs, nextPid>>
        /\ UNCHANGED <<current_model, current_model_path, sparam, cparam, files, regVars, dlVars,
                       dbVars, chatVars>>

\* A health loop whose counter stands still: a mutant of Polled.
PolledNever(i) == i

\* start_server, line 123: the loop variable after one more turn.
Polled(i) == i + 1

\* start_server, lines 121-140: one turn of the health loop.  The health
\* endpoint of the mode's port answers only if an engine of the mode is alive.
StartPoll(t) ==
    LET tr == task[t]
        m == tr.mode
    IN  /\ tr.pc = "ss_poll"
        /\ \/ /\ AliveOf(m) # {}
              /\ status' = [status EXCEPT ![m] = MODEL_STATUS_RUNNING]
              /\ error_message' = [error_message EXCEPT ![m] = ""]
              /\ task' = [task EXCEPT ![t] = StartReturn(tr, TRUE)]
           \/ /\ tr.retries + 1 < max_retries
              /\ task' = [task EXCEPT ![t] = [tr EXCEPT !.retries = Polled(tr.retries)]]
              /\ UNCHANGED <<status, error_message>>
           \/ /\ tr.retries + 1 >= max_retries
              /\ status' = [status EXCEPT ![m] = MODEL_STATUS_ERROR]
              /\ error_message' = [error_message EXCEPT ![m] = "start_timeout"]
              /\ task' = [task EXCEPT ![t] =
                     [tr EXCEPT !.pc = "st_term", !.stopret = "ss_fail"]]
        /\ UNCHANGED <<process, current_model, current_model_path, sparam,
                       cparam, procs, nextPid, files, regVars, dlVars, dbVars, chatVars>>

\* The finally block without its lines 184-185: a mutant of StopClear.
StopClearKeepsModel(mode) ==
    /\ process' = [process EXCEPT ![mode] = 0]
    /\ status' = [status EXCEPT ![mode] = MODEL_STATUS_STOPPED]
    /\ UNCHANGED <<current_model, current_model_path>>

\* The finally block of stop_server, lines 181-185.
StopClear(mode) ==
    /\ process' = [process EXCEPT ![mode] = 0]
    /\ status' = [status EXCEPT ![mode] = MODEL_STATUS_STOPPED]
    /\ current_model' = [current_model EXCEPT ![mode] = ""]
    /\ current_model_path' = [current_model_path EXCEPT ![mode] = NoPath]

\* stop_server, lines 160-166: nothing to stop, or SIGTERM to the process
\* group.  For a process that has already exited the signal either reaches
\* its unreaped remains (and the wait returns at once) or os.getpgid raises.
StopTerm(t) ==
    LET tr == task[t]
        m == tr.mode
    IN  /\ tr.pc = "st_term"
        /\ IF process[m] = 0
           THEN /\ task' = [task EXCEPT ![t] = StopReturn([tr EXCEPT !.signals = <<>>], TRUE)]
                /\ UNCHANGED ctlVars
           ELSE IF Alive(process[m])
           THEN /\ task' = [task EXCEPT ![t] =
                       [tr EXCEPT !.pc = "st_wait", !.signals = <<"SIGTERM">>]]
                /\ UNCHANGED ctlVars
           ELSE /\ StopClear(m)
                /\ UNCHANGED error_message
                /\ \E r \in BOOLEAN :
                       task' = [task EXCEPT ![t] =
                           StopReturn([tr EXCEPT !.how = IF r THEN "graceful" ELSE "error",
                                                 !.signals = IF r THEN <<"SIGTERM">> ELSE <<>>], r)]
        /\ UNCHANGED <<sparam, cparam, procs, nextPid, files, regVars, dlVars, dbVars, chatVars>>

\* stop_server with the kill sent whatever the wait returned: a mutant of
\* StopSignals.
StopSignalsAlwaysKill(signals, how) == Append(signals, "SIGKILL")

\* stop_server, lines 172-175: the signals sent to the process group once the
\* wait of line 169 has returned (how = "graceful") or timed out ("forced").
StopSignals(signals, how) ==
    IF how = "forced" THEN Append(signals, "SIGKILL") ELSE signals

\* stop_server, lines 169-185: the process exits within the grace period, or
\* the wait times out and the group is killed; either way the handle is
\* cleared.  A handle cleared meanwhile by another thread makes the wait raise.
StopWait(t) ==
    LET tr == task[t]
        m == tr.mode
        pid == process[m]
    IN  /\ tr.pc = "st_wait"
        /\ procs' = {p \in procs : p.pid # pid}
        /\ StopClear(m)
        /\ IF pid = 0
           THEN task' = [task EXCEPT ![t] = StopReturn([tr EXCEPT !.how = "error"], FALSE)]
           ELSE \E h \in {"graceful", "forced"} :
                    task' = [task EXCEPT ![t] =
                        StopReturn([tr EXCEPT !.how = h,
                                              !.signals = StopSignals(tr.signals, h)], TRUE)]
        /\ UNCHANGED <<error_message, sparam, cparam, nextPid, files, regVars, dlVars, dbVars, chatVars>>

\* update_parameters, lines 238-255 (LLMServer.update_params runs it on a
\* worker thread).
\* update_parameters without its lines 238-245: a mutant of SetParameters.
SetParametersKeepsOld(old, req) == old

SetParameters(old, req) ==
    [f \in SFields |-> IF f \in DOMAIN req THEN req[f] ELSE old[f]]

UpdateSet(t) ==
    LET tr == task[t]
        m == tr.mode
    IN  /\ tr.pc = "up_set"
        /\ sparam' = [sparam EXCEPT ![m] = SetParameters(sparam[m], tr.req)]
        /\ task' = [task EXCEPT ![t] =
               IF process[m] # 0 /\ current_model_path[m] # NoPath
               THEN [tr EXCEPT !.pc = "ss_check", !.path = current_model_path[m],
                               !.name = current_model[m]]
               ELSE StartReturn(tr, TRUE)]
        /\ UNCHANGED <<ctlVars, cparam, procs, nextPid, files, regVars, dlVars, dbVars, chatVars>>

\* An engine process exits on its own.
Crash(pid) ==
    /\ \E p \in procs : p.pid = pid
    /\ procs' = {p \in procs : p.pid # pid}
    /\ UNCHANGED <<ctlVars, sparam, cparam, nextPid, files, regVars, dlVars, dbVars, chatVars, task>>

\* The caller has the result of a finished call: the task is free again.
Return(t) ==
    /\ task[t].pc = "done"
    /\ task' = [task EXCEPT ![t] = IdleTask]
    /\ UNCHANGED <<ctlVars, sparam, cparam, procs, nextPid, files, regVars, dlVars, dbVars, chatVars>>

\* Direct calls of the controller: start, switch (start_server under another
\* name), stop and update_parameters.
MayLaunch == nextPid + Cardinality({t \in Tasks : ~Idle(t)}) <= MaxLaunch

CallStart(t, op, mode, path, name) ==
    /\ Idle(t)
    /\ MayLaunch
    /\ task' = [task EXCEPT ![t] =
           [NewTask(op, mode) EXCEPT !.pc = "ss_check", !.path = path, !.name = name]]
    /\ UNCHANGED <<ctlVars, sparam, cparam, procs, nextPid, files, regVars, dlVars, dbVars, chatVars>>

CallStop(t, mode) ==
    /\ Idle(t)
    /\ task' = [task EXCEPT ![t] =
           [NewTask("stop", mode) EXCEPT !.pc = "st_term", !.stopret = "ret"]]
    /\ UNCHANGED <<ctlVars, sparam, cparam, procs, nextPid, files, regVars, dlVars, dbVars, chatVars>>

CallUpdate(t, mode, req) ==
    /\ Idle(t)
    /\ MayLaunch
    /\ task' = [task EXCEPT ![t] =
           [NewTask("update", mode) EXCEPT !.pc = "up_set", !.req = req]]
    /\ UNCHANGED <<ctlVars, sparam, cparam, procs, nextPid, files, regVars, dlVars, dbVars, chatVars>>

ControllerStep(t) ==
    \/ StartCheck(t)
    \/ StartLaunch(t)
    \/ StartPopen(t)
    \/ StartPoll(t)
    \/ StopTerm(t)
    \/ StopWait(t)

(***************************************************************************)
(* The config store: SQLiteConfig's model_info table.  A record's id is    *)
(* its index in the sequence; the core never deletes a record.             *)
(***************************************************************************)

\* get_model_by_name: the id of the record of (name, mode), 0 if there is none.
get_model_by_name(tbl, name, mode) ==
    IF \E i \in 1..Len(tbl) : tbl[i].model_name = name /\ tbl[i].mode = mode
    THEN CHOOSE i \in 1..Len(tbl) : tbl[i].model_name = name /\ tbl[i].mode = mode
    ELSE 0

\* add_model: is_downloaded is whether the file exists.
add_model(tbl, name, path, mode, url) ==
    Append(tbl, [model_name |-> name, mode |-> mode, model_path |-> path,
                 download_url |-> url, is_current |-> FALSE,
                 is_downloaded |-> Exists(path)])

update_model_download_status(tbl, id, downloaded) ==
    [tbl EXCEPT ![id].is_downloaded = downloaded]

\* The checks without the one of the mode, lines 232-236: a mutant of
\* SetCurrentAllowed.
SetCurrentAllowedAnyMode(tbl, id, mode) ==
    /\ id \in 1..Len(tbl)
    /\ tbl[id].is_downloaded

\* set_current_model, lines 222-236: the checks that raise ValueError.
SetCurrentAllowed(tbl, id, mode) ==
    /\ id \in 1..Len(tbl)
    /\ tbl[id].is_downloaded
    /\ tbl[id].mode = mode

SetCurrentRowsKeepOthers(tbl, id, mode) ==
    [tbl EXCEPT ![id].is_current = TRUE]

\* The unset of line 238 without its WHERE clause: a mutant of SetCurrentRows.
SetCurrentRowsEveryMode(tbl, id, mode) ==
    [i \in 1..Len(tbl) |-> [tbl[i] EXCEPT !.is_current = (i = id)]]

\* set_current_model, lines 238-244: unset every record of the mode, then set
\* the one.
SetCurrentRows(tbl, id, mode) ==
    [i \in 1..Len(tbl) |->
        IF i = id THEN [tbl[i] EXCEPT !.is_current = TRUE]
        ELSE IF tbl[i].mode = mode THEN [tbl[i] EXCEPT !.is_current = FALSE]
        ELSE tbl[i]]

\* set_current_model without the checks of lines 222-236: a mutant of
\* set_current_model.
set_current_model_unchecked(tbl, id, mode) == SetCurrentRows(tbl, id, mode)

set_current_model(tbl, id, mode) ==
    IF SetCurrentAllowed(tbl, id, mode) THEN SetCurrentRows(tbl, id, mode) ELSE tbl

\* _update_database: the table after the upsert, before set_current_model.
Upserted(tbl, name, path, mode) ==
    IF get_model_by_name(tbl, name, mode) # 0
    THEN update_model_download_status(tbl, get_model_by_name(tbl, name, mode),
                                      Exists(path))
    ELSE add_model(tbl, name, path, mode, "")

\* _update_database followed by the return of select_model: success, or the
\* ValueError of set_current_model caught by select_model.
UpdateDatabase(t, tr) ==
    LET m == tr.mode
        up == Upserted(model_info, tr.name, tr.path, m)
        id == get_model_by_name(up, tr.name, m)
    IN  /\ model_info' = set_current_model(up, id, m)
        /\ task' = [task EXCEPT ![t] =
               IF SetCurrentAllowed(up, id, m)
               THEN Finish(tr, TRUE, FALSE, "running")
               ELSE Finish(tr, FALSE, FALSE, "db_error")]

(***************************************************************************)
(* The model selection pipeline.                                           *)
(***************************************************************************)
URLs == {"uA", "uB"}

\* ModelDownloader._get_filename_from_url
UrlName(url) == IF url = "uA" THEN "A" ELSE "B"

\* _check_model_exists without the exists() of line 131: a mutant of
\* CheckModelExists.
CheckModelExistsUnchecked(name, mode) ==
    LET id == get_model_by_name(model_info, name, mode)
    IN  IF id # 0 THEN model_info[id].model_path
        ELSE IF Exists(MkPath(get_model_dir(mode), name, ".gguf"))
        THEN MkPath(get_model_dir(mode), name, ".gguf")
        ELSE NoPath

\* _check_model_exists: the record's path if its file exists, else the file
\* named after the model in the mode's directory.
CheckModelExists(name, mode) ==
    LET id == get_model_by_name(model_info, name, mode)
    IN  IF id # 0 /\ Exists(model_info[id].model_path)
        THEN model_info[id].model_path
        ELSE IF Exists(MkPath(get_model_dir(mode), name, ".gguf"))
        THEN MkPath(get_model_dir(mode), name, ".gguf")
        ELSE IF Exists(MkPath(get_model_dir(mode), name, ".GGUF"))
        THEN MkPath(get_model_dir(mode), name, ".GGUF")
        ELSE NoPath

\* select_model with the URL of the record put before the one passed in: a
\* mutant of KnownUrl.
KnownUrlStoredFirst(name, mode, url) ==
    LET id == get_model_by_name(model_info, name, mode)
    IN  IF id # 0 /\ model_info[id].download_url # "" THEN model_info[id].download_url
        ELSE url

\* select_model, lines 54-57: the URL passed in, else the one on the record.
KnownUrl(name, mode, url) ==
    LET id == get_model_by_name(model_info, name, mode)
    IN  IF url # "" THEN url
        ELSE IF id # 0 THEN model_info[id].download_url
        ELSE ""

SameModelRunningUnresolved(mode, path) ==
    /\ IsRunning(mode)
    /\ current_model_path[mode] = path

\* _ensure_server_running, line 232: the same model is already running.
SameModelRunning(mode, path) ==
    /\ IsRunning(mode)
    /\ current_model_path[mode] # NoPath
    /\ Resolve(current_model_path[mode]) = Resolve(path)

\* _ensure_server_running, lines 217-258, up to its first await, with the
\* rest of select_model when the model is already running.
EnsureServerRunning(t, tr) ==
    LET m == tr.mode
    IN  IF SameModelRunning(m, tr.path)
        THEN UpdateDatabase(t, tr)
        ELSE /\ task' = [task EXCEPT ![t] =
                    IF IsRunning(m)
                    THEN [tr EXCEPT !.pc = "st_term", !.stopret = "ret"]
                    ELSE [tr EXCEPT !.pc = "ss_check"]]
             /\ UNCHANGED model_info

\* select_model, lines 49-84, up to its first await.
SelectBegin(t, name, mode, url) ==
    LET path == CheckModelExists(name, mode)
        u == KnownUrl(name, mode, url)
        tr == [NewTask("select", mode) EXCEPT !.name = name, !.path = path, !.url = u,
                                              !.download_url = url]
    IN  /\ Idle(t)
        /\ MayLaunch
        /\ IF path = NoPath /\ u # ""
           THEN /\ task' = [task EXCEPT ![t] = [tr EXCEPT !.pc = "sel_download"]]
                /\ UNCHANGED model_info
           ELSE IF path = NoPath
           THEN /\ task' = [task EXCEPT ![t] = Finish(tr, FALSE, FALSE, "not_found")]
                /\ UNCHANGED model_info
           ELSE EnsureServerRunning(t, tr)
        /\ UNCHANGED <<ctlVars, sparam, cparam, procs, nextPid, files, regVars, dlVars,
                       llm_parameters, chatVars>>

\* _download_model and download_model: the downloader's directory is set to
\* the mode's; the file named by the URL is there already, or is fetched, and
\* the directory is set back; or the fetch raises, _download_model returns
\* None from its except branch, which sets nothing back, and select_model
\* returns.
SelectDownload(t) ==
    LET tr == task[t]
        file == MkPath(get_model_dir(tr.mode), UrlName(tr.url), ".gguf")
    IN  /\ tr.pc = "sel_download"
        /\ \/ /\ files' = files \cup {file}
              /\ task' = [task EXCEPT ![t] =
                     [tr EXCEPT !.pc = "sel_downloaded", !.path = file]]
              /\ UNCHANGED download_dir
           \/ /\ ~Exists(file)
              /\ task' = [task EXCEPT ![t] = Finish(tr, FALSE, FALSE, "download_failed")]
              /\ download_dir' = get_model_dir(tr.mode)
              /\ UNCHANGED files
        /\ UNCHANGED <<ctlVars, sparam, cparam, procs, nextPid, regVars, dbVars, chatVars,
                       disk, active_downloads>>

\* select_model, lines 63-84: it goes on with the downloaded file.
SelectDownloaded(t) ==
    LET tr == task[t]
    IN  /\ tr.pc = "sel_downloaded"
        /\ EnsureServerRunning(t, tr)
        /\ UNCHANGED <<ctlVars, sparam, cparam, procs, nextPid, files, regVars, dlVars,
                       llm_parameters, chatVars>>

\* _ensure_server_running, lines 245-252: after the old process was stopped.
SelectStopped(t) ==
    LET tr == task[t]
    IN  /\ tr.pc = "sel_stopped"
        /\ task' = [task EXCEPT ![t] =
               IF tr.ret THEN [tr EXCEPT !.pc = "sel_sleep"]
               ELSE Finish(tr, FALSE, FALSE, "stop_failed")]
        /\ UNCHANGED <<ctlVars, sparam, cparam, procs, nextPid, files, regVars, dlVars, dbVars,
                       chatVars>>

\* _ensure_server_running, lines 255-258: the sleep is over, start runs.
SelectStart(t) ==
    LET tr == task[t]
    IN  /\ tr.pc = "sel_sleep"
        /\ task' = [task EXCEPT ![t] = [tr EXCEPT !.pc = "ss_check"]]
        /\ UNCHANGED <<ctlVars, sparam, cparam, procs, nextPid, files, regVars, dlVars, dbVars,
                       chatVars>>

ServerReadyUnchecked(mode) == TRUE

\* _ensure_server_running, line 269
ServerReady(mode) == IsRunning(mode) /\ status[mode] = MODEL_STATUS_RUNNING

\* _ensure_server_running, lines 260-275, and select_model, lines 85-104: one
\* turn of the wait for the server to be ready.
SelectWait(t) ==
    LET tr == task[t]
    IN  /\ tr.pc \in {"sel_started", "sel_wait"}
        /\ IF tr.pc = "sel_started" /\ ~tr.ret
           THEN /\ task' = [task EXCEPT ![t] = Finish(tr, FALSE, FALSE, "start_failed")]
                /\ UNCHANGED model_info
           ELSE IF ServerReady(tr.mode)
           THEN UpdateDatabase(t, tr)
           ELSE /\ task' = [task EXCEPT ![t] =
                       IF tr.retries + 1 >= max_wait
                       THEN Finish(tr, FALSE, FALSE, "wait_timeout")
                       ELSE [tr EXCEPT !.pc = "sel_wait", !.retries = tr.retries + 1]]
                /\ UNCHANGED model_info
        /\ UNCHANGED <<ctlVars, sparam, cparam, procs, nextPid, files, regVars, dlVars,
                       llm_parameters, chatVars>>

SelectStep(t) ==
    \/ SelectDownload(t)
    \/ SelectDownloaded(t)
    \/ SelectStopped(t)
    \/ SelectStart(t)
    \/ SelectWait(t)

(***************************************************************************)
(* The parameter change pipeline (of the llm mode's controller and client) *)
(* and the llm_parameters table of the config store.                       *)
(***************************************************************************)

\* Every supplied server field counted as a change.
ServerChangesSupplied(req) == SFields \cap DOMAIN req

\* A request accepted whatever its values.
ValidateParametersNever(req) == TRUE

\* The restart flag of a call that took no restart path.
RestartFlagAlways(changed) == TRUE

\* _validate_parameters: every supplied field is within its bound.
FieldValid(f, v) ==
    CASE f \in {"context_size", "threads", "batch_size", "max_tokens"} -> v > 0
      [] f \in {"gpu_layers", "repeat_penalty"} -> v >= 0
      [] f = "temperature" -> v >= 0 /\ v <= 20

ValidateParameters(req) == \A f \in DOMAIN req : FieldValid(f, req[f])

\* _update_server_parameters, lines 181-189: the supplied server fields whose
\* value differs from the controller's.
ServerChanges(req) == {f \in SFields \cap DOMAIN req : req[f] # sparam["llm"][f]}

\* _update_client_parameters, lines 239-245
ClientChanges(req) == {f \in CFields \cap DOMAIN req : req[f] # cparam[f]}

\* LLMClient.update_parameters, called when some client field changes.
ClientApplied(req) ==
    IF ClientChanges(req) = {} THEN cparam
    ELSE [f \in CFields |-> IF f \in DOMAIN req THEN req[f] ELSE cparam[f]]

\* Every field persisted with the type "int": a mutant of ParamType.
ParamTypeInt(f) == "int"

\* The parameter_type _persist_parameters passes for a field, lines 280-293.
ParamType(f) == IF f \in {"temperature", "repeat_penalty"} THEN "float" ELSE "int"

\* The fields whose values are Python floats.
IsFloat(f) == f \in {"temperature", "repeat_penalty"}

Abs(n) == IF n < 0 THEN 0 - n ELSE n

\* The decimal digits of a natural number.
RECURSIVE Digits(_)
Digits(n) == IF n < 10 THEN <<n>> ELSE Append(Digits(n \div 10), n % 10)

\* The number a sequence of decimal digits stands for.
RECURSIVE DigitsValue(_)
DigitsValue(ds) ==
    IF ds = <<>> THEN 0
    ELSE DigitsValue(SubSeq(ds, 1, Len(ds) - 1)) * 10 + ds[Len(ds)]

\* str(value): the text of an int, or of a float (kept in tenths) with its
\* digit behind the point, "4096" and "0.7".
PyStr(f, v) ==
    [neg |-> v < 0,
     whole |-> IF IsFloat(f) THEN Digits(Abs(v) \div 10) ELSE Digits(Abs(v)),
     frac |-> IF IsFloat(f) THEN <<Abs(v) % 10>> ELSE <<>>]

Signed(neg, n) == IF neg THEN 0 - n ELSE n

\* set_parameter, lines 292-302: the row of the parameter after the upsert.
set_parameter(stored, name, value, param_type) ==
    [f \in DOMAIN stored \cup {name} |->
        IF f = name THEN [parameter_value |-> PyStr(name, value),
                          parameter_type |-> param_type]
        ELSE stored[f]]

\* The conversion of get_parameter and get_all_parameters, lines 316-326 and
\* 337-346: int() of a text with a point raises ValueError; float() gives
\* the value, here in tenths.
Converted(row) ==
    CASE row.parameter_type = "int" ->
             IF row.parameter_value.frac = <<>>
             THEN [error |-> "",
                   value |-> Signed(row.parameter_value.neg,
                                    DigitsValue(row.parameter_value.whole))]
             ELSE [error |-> "ValueError", value |-> 0]
      [] row.parameter_type = "float" ->
             [error |-> "",
              value |-> Signed(row.parameter_value.neg,
                               DigitsValue(row.parameter_value.whole) * 10
                                   + DigitsValue(row.parameter_value.frac))]

\* get_parameter(name), for a parameter that is stored.
get_parameter(stored, name) == Converted(stored[name])

\* _persist_parameters: set_parameter for every supplied field.
RECURSIVE PersistFields(_, _, _)
PersistFields(stored, req, fs) ==
    IF fs = {} THEN stored
    ELSE LET f == CHOOSE g \in fs : TRUE
         IN  PersistFields(set_parameter(stored, f, req[f], ParamType(f)), req,
                           fs \ {f})

Persisted(stored, req) == PersistFields(stored, req, DOMAIN req)

\* apply_parameters, lines 57-70, up to its first await: validation, and the
\* server parameters; with no server change, also lines 84-94.
ApplyBegin(t, req) ==
    LET tr == [NewTask("apply", "llm") EXCEPT !.req = req]
    IN  /\ Idle(t)
        /\ MayLaunch
        /\ calls.apply < MaxApply
        /\ calls' = [calls EXCEPT !.apply = calls.apply + 1]
        /\ IF ~ValidateParameters(req)
           THEN /\ task' = [task EXCEPT ![t] = Finish(tr, FALSE, FALSE, "invalid")]
                /\ UNCHANGED cparam
           ELSE IF ServerChanges(req) # {}
           THEN /\ task' = [task EXCEPT ![t] = [tr EXCEPT !.pc = "up_set"]]
                /\ UNCHANGED cparam
           ELSE /\ cparam' = ClientApplied(req)
                /\ task' = [task EXCEPT ![t] = [tr EXCEPT !.pc = "ap_persist"]]
        /\ UNCHANGED <<ctlVars, sparam, procs, nextPid, files, regVars, dlVars, dbVars, sessions,
                       messages>>

\* apply_parameters, lines 72-94, and _update_server_parameters, lines
\* 208-213: update_params has returned.
ApplyResume(t) ==
    LET tr == task[t]
    IN  /\ tr.pc = "ap_resume"
        /\ IF tr.ret
           THEN /\ cparam' = ClientApplied(tr.req)
                /\ task' = [task EXCEPT ![t] =
                       [tr EXCEPT !.pc = "ap_persist", !.changed = TRUE]]
           ELSE /\ task' = [task EXCEPT ![t] = Finish(tr, FALSE, FALSE, "update_failed")]
                /\ UNCHANGED cparam
        /\ UNCHANGED <<ctlVars, sparam, procs, nextPid, files, regVars, dlVars, dbVars, chatVars>>

\* apply_parameters, lines 72-74 and 112: requires_restart is the value
\* _update_server_parameters returned.
RestartFlag(changed) == changed

\* apply_parameters, lines 97-117: the supplied fields are persisted and the
\* result is returned.
ApplyPersist(t) ==
    LET tr == task[t]
    IN  /\ tr.pc = "ap_persist"
        /\ llm_parameters' = Persisted(llm_parameters, tr.req)
        /\ task' = [task EXCEPT ![t] = Finish(tr, TRUE, RestartFlag(tr.changed), "")]
        /\ UNCHANGED <<ctlVars, sparam, cparam, procs, nextPid, files, regVars, dlVars, model_info,
                       chatVars>>

ApplyStep(t) ==
    \/ UpdateSet(t)
    \/ ApplyResume(t)
    \/ ApplyPersist(t)

(***************************************************************************)
(* The chat pipeline and the session store.  A text is a sequence of       *)
(* English words, written with single spaces between them, or the full     *)
(* stop ".".                                                               *)
(***************************************************************************)

role_overhead == 4
default_context_size == 15360
default_system_prompt == <<"You", "are", "a", "helpful", "assistant", ".">>

\* TokenEstimator.estimate_tokens: 1.3 a word, 1.0 a space or punctuation
\* mark, truncated, plus one.
estimate_tokens(text) ==
    LET words == Cardinality({i \in 1..Len(text) : text[i] # "."})
        stops == Cardinality({i \in 1..Len(text) : text[i] = "."})
        spaces == IF words > 0 THEN words - 1 ELSE 0
    IN  IF text = <<>> THEN 0
        ELSE (13 * words + 10 * (spaces + stops)) \div 10 + 1

estimate_message_tokens(role, content) == estimate_tokens(content) + role_overhead

\* SQLiteSession.update_session_stats
RECURSIVE SumTokens(_, _)
SumTokens(msgs, sid) ==
    IF msgs = <<>> THEN 0
    ELSE (IF msgs[1].session_id = sid THEN msgs[1].token_count ELSE 0)
         + SumTokens(Tail(msgs), sid)

update_session_stats(ss, msgs, sid) ==
    [i \in DOMAIN ss |->
        IF i = sid
        THEN [message_count |->
                  Cardinality({k \in 1..Len(msgs) : msgs[k].session_id = sid}),
              total_tokens |-> SumTokens(msgs, sid)]
        ELSE ss[i]]

\* SQLiteSession.add_message, lines 199-201
RoleAllowed(role) == role \in {"user", "assistant"}

\* SQLiteSession.add_message, lines 203-209: the inserted row.
add_message(msgs, sid, role, content, tokens) ==
    Append(msgs, [session_id |-> sid, role |-> role, content |-> content,
                  token_count |-> tokens])

\* The user message of a request left out of the store.
UserMessageDropped(msgs, sid, msg) == msgs

\* process_chat, lines 104-115
UserMessageSaved(msgs, sid, msg) ==
    add_message(msgs, sid, msg.role, msg.content,
                estimate_message_tokens(msg.role, msg.content))

\* The loop without its break: a message over the budget is passed over.
RECURSIVE WindowNoBreak(_, _, _)
WindowNoBreak(rows, used, available) ==
    IF rows = <<>> THEN <<>>
    ELSE LET last == rows[Len(rows)]
             rest == SubSeq(rows, 1, Len(rows) - 1)
         IN  IF used + last.token_count > available
             THEN WindowNoBreak(rest, used, available)
             ELSE Append(WindowNoBreak(rest, used + last.token_count, available), last)

\* get_messages_within_token_limit: the newest messages of the session that
\* fit the budget, oldest first.
RECURSIVE Window(_, _, _)
Window(rows, used, available) ==
    IF rows = <<>> THEN <<>>
    ELSE LET last == rows[Len(rows)]
         IN  IF used + last.token_count > available THEN <<>>
             ELSE Append(Window(SubSeq(rows, 1, Len(rows) - 1),
                                used + last.token_count, available), last)

RECURSIVE RowsOf(_, _)
RowsOf(msgs, sid) ==
    IF msgs = <<>> THEN <<>>
    ELSE (IF msgs[1].session_id = sid THEN <<msgs[1]>> ELSE <<>>)
         \o RowsOf(Tail(msgs), sid)

get_messages_within_token_limit(msgs, sid, max_tokens, system_prompt_tokens) ==
    Window(RowsOf(msgs, sid), 0, max_tokens - system_prompt_tokens)

\* A call of get_messages_within_token_limit on its own.
WindowCall(t, sid, max_tokens, system_prompt_tokens) ==
    /\ Idle(t)
    /\ task' = [task EXCEPT ![t] =
           Finish([NewTask("window", "llm") EXCEPT
                       !.session = sid,
                       !.max_tokens = max_tokens,
                       !.system_prompt_tokens = system_prompt_tokens,
                       !.payload = get_messages_within_token_limit(
                                       messages, sid, max_tokens, system_prompt_tokens)],
                  TRUE, FALSE, "")]
    /\ UNCHANGED <<ctlVars, sparam, cparam, procs, nextPid, files, regVars, dlVars, dbVars, chatVars>>

\* process_chat, lines 82-83: the stored context_size, or the default when
\* none is stored or the stored value is 0.
ChatContextSize ==
    IF "context_size" \in DOMAIN llm_parameters
       /\ get_parameter(llm_parameters, "context_size").value # 0
    THEN get_parameter(llm_parameters, "context_size").value
    ELSE default_context_size

\* process_chat with the default window whatever is stored: a mutant of
\* MaxHistoryTokens.
MaxHistoryTokensDefault == default_context_size \div 2

\* process_chat, line 86: max_history_tokens
MaxHistoryTokens == ChatContextSize \div 2

\* process_chat, lines 75-79: system_prompt_tokens
SystemPromptTokens == estimate_message_tokens("system", default_system_prompt)

\* process_chat, lines 75-107: [system] + [history] + [new message]
MessagesToSend(sid, msg) ==
    LET history == get_messages_within_token_limit(messages, sid,
                       MaxHistoryTokens, SystemPromptTokens)
    IN  <<[role |-> "system", content |-> default_system_prompt]>>
        \o [i \in 1..Len(history) |->
               [role |-> history[i].role, content |-> history[i].content]]
        \o (IF msg = NoMsg THEN <<>> ELSE <<msg>>)

\* process_chat, lines 62-63: status["is_running"]
ServerAvailable(mode) == IsRunning(mode)

\* process_chat up to the return of the StreamingResponse (no await in it).
RespondBegin(t, sid, msg) ==
    LET tr == [NewTask("respond", "llm") EXCEPT !.session = sid, !.msg = msg]
        refuse(why) ==
            /\ task' = [task EXCEPT ![t] = Finish(tr, FALSE, FALSE, why)]
            /\ UNCHANGED <<sessions, messages>>
    IN  /\ Idle(t)
        /\ calls.respond < MaxRespond
        /\ calls' = [calls EXCEPT !.respond = calls.respond + 1]
        /\ IF ~ServerAvailable("llm") THEN refuse("server_not_running")
           ELSE IF sid \notin DOMAIN sessions THEN refuse("session_not_found")
           ELSE IF msg # NoMsg /\ ~RoleAllowed(msg.role) THEN refuse("invalid_role")
           ELSE /\ messages' = IF msg = NoMsg THEN messages
                               ELSE UserMessageSaved(messages, sid, msg)
                /\ sessions' = IF msg = NoMsg THEN sessions
                               ELSE update_session_stats(sessions, messages', sid)
                /\ task' = [task EXCEPT ![t] =
                       [tr EXCEPT !.pc = "rs_ready",
                                  !.max_tokens = MaxHistoryTokens,
                                  !.system_prompt_tokens = SystemPromptTokens,
                                  !.payload = MessagesToSend(sid, msg)]]
        /\ UNCHANGED <<ctlVars, sparam, cparam, procs, nextPid, files, regVars, dlVars, dbVars>>

\* An exception in the stream that lets the generator go on to its end.
StreamErrorThenSave(tr) ==
    [tr EXCEPT !.out = Append(tr.out, [kind |-> "error"]), !.pc = "rs_save"]

\* generate(), lines 126-127 and 153-155: the exception handler forwards one
\* error event and the generator ends.
StreamError(tr) ==
    Finish([tr EXCEPT !.out = Append(tr.out, [kind |-> "error"])],
           TRUE, FALSE, "stream_error")

\* generate(), lines 120-125, and LLMClient._stream_chat_completion: the
\* request is posted to the engine; the engine answers it with a stream, or
\* the connection or the status check fails.
RespondOpen(t) ==
    LET tr == [task[t] EXCEPT !.sent = task[t].payload]
    IN  /\ task[t].pc = "rs_ready"
        /\ \/ /\ AliveOf(tr.mode) # {}
              /\ task' = [task EXCEPT ![t] = [tr EXCEPT !.pc = "rs_stream"]]
           \/ task' = [task EXCEPT ![t] = StreamError(tr)]
        /\ UNCHANGED <<ctlVars, sparam, cparam, procs, nextPid, files, regVars, dlVars, dbVars,
                       chatVars>>

\* dict.get
Get(chunk, key, default) == IF key \in chunk.keys THEN chunk[key] ELSE default

\* The parsed events an engine may stream: the chunk of an OpenAI-style
\* completion stream, whose text is choices[0].delta.content, and chunks
\* that carry their text under "data", the last with a completion flag.
EngineChunks ==
    {[keys |-> {"choices"}, choices |-> <<"yo">>, data |-> <<>>, done_flag |-> FALSE],
     [keys |-> {"data"}, choices |-> <<>>, data |-> <<"hi">>, done_flag |-> FALSE],
     [keys |-> {"data", "done_flag"}, choices |-> <<>>, data |-> <<"ok">>,
      done_flag |-> TRUE]}

\* The text content of a chunk.
ChunkText(chunk) ==
    IF "choices" \in chunk.keys THEN chunk.choices
    ELSE IF "data" \in chunk.keys THEN chunk.data
    ELSE <<>>



\* The chunks of one stream are of one format.
SameFormat(c, d) == ("choices" \in c.keys) <=> ("choices" \in d.keys)

\* generate(), lines 127-139: one chunk is read, collected and forwarded.
RespondChunk(t, chunk) ==
    LET tr == task[t]
        content == Get(chunk, "data", <<>>)
        done_flag == Get(chunk, "done_flag", FALSE)
    IN  /\ tr.pc = "rs_stream"
        /\ Len(tr.out) < MaxChunks
        /\ \A i \in 1..Len(tr.out) : SameFormat(tr.out[i].chunk, chunk)
        /\ task' = [task EXCEPT ![t] =
               [tr EXCEPT !.acc = tr.acc \o content,
                          !.out = Append(tr.out, [kind |-> "chunk", chunk |-> chunk]),
                          !.pc = IF done_flag THEN "rs_save" ELSE "rs_stream"]]
        /\ UNCHANGED <<ctlVars, sparam, cparam, procs, nextPid, files, regVars, dlVars, dbVars,
                       chatVars>>

\* The stream ends ([DONE], or the engine closes it).
RespondEnd(t) ==
    /\ task[t].pc = "rs_stream"
    /\ task' = [task EXCEPT ![t].pc = "rs_save"]
    /\ UNCHANGED <<ctlVars, sparam, cparam, procs, nextPid, files, regVars, dlVars, dbVars, chatVars>>

\* Reading the stream raises.
RespondFail(t) ==
    /\ task[t].pc = "rs_stream"
    /\ task' = [task EXCEPT ![t] = StreamError(task[t])]
    /\ UNCHANGED <<ctlVars, sparam, cparam, procs, nextPid, files, regVars, dlVars, dbVars, chatVars>>

\* generate(), lines 141-151: a non-empty answer is persisted.
RespondSave(t) ==
    LET tr == task[t]
    IN  /\ tr.pc = "rs_save"
        /\ messages' = IF tr.acc = <<>> THEN messages
                       ELSE add_message(messages, tr.session, "assistant", tr.acc,
                                estimate_message_tokens("assistant", tr.acc))
        /\ sessions' = IF tr.acc = <<>> THEN sessions
                       ELSE update_session_stats(sessions, messages', tr.session)
        /\ task' = [task EXCEPT ![t] = Finish(tr, TRUE, FALSE, "")]
        /\ UNCHANGED <<ctlVars, sparam, cparam, procs, nextPid, files, regVars, dlVars, dbVars, calls>>

RespondStep(t) ==
    \/ RespondOpen(t)
    \/ \E chunk \in EngineChunks : RespondChunk(t, chunk)
    \/ RespondEnd(t)
    \/ RespondFail(t)
    \/ RespondSave(t)

\* A model file is removed from the disk.
DeleteFile(p) ==
    /\ p \in files
    /\ files' = files \ {p}
    /\ UNCHANGED <<ctlVars, sparam, cparam, procs, nextPid, regVars, dbVars, chatVars, dlVars, task>>

(***************************************************************************)
(* Initial state: the state after ModelServerManager.__init__.             *)
(***************************************************************************)
DefaultServerParams(mode) ==
    [f \in SFields |->
        CASE f = "context_size" -> IF mode = "llm" THEN 15360 ELSE 8192
          [] f = "threads" -> 8
          [] f = "gpu_layers" -> 0
          [] f = "batch_size" -> 512]

DefaultClientParams ==
    [f \in CFields |->
        CASE f = "temperature" -> 7
          [] f = "repeat_penalty" -> 11
          [] f = "max_tokens" -> 2048]

\* ModelDownloader.__init__: no download is registered; the download
\* directory holds no file of the model to fetch.
NoDisk == [final |-> 0, temp |-> 0, data |-> <<>>, started |-> 0]

InitDownloader ==
    /\ disk = NoDisk
    /\ active_downloads = <<>>
    /\ download_dir = get_model_dir("llm")

\* _initialize_default_parameters, lines 172-188: the parameters persisted at
\* the first start of the backend.
StoredDefaults ==
    Persisted(EmptyReq, DefaultServerParams("llm") @@ DefaultClientParams)

InitControllers ==
    /\ process = [m \in Modes |-> 0]
    /\ current_model = [m \in Modes |-> ""]
    /\ current_model_path = [m \in Modes |-> NoPath]
    /\ status = [m \in Modes |-> MODEL_STATUS_NOT_STARTED]
    /\ error_message = [m \in Modes |-> ""]
    /\ sparam = [m \in Modes |-> DefaultServerParams(m)]
    /\ cparam = DefaultClientParams
    /\ procs = {}
    /\ nextPid = 1
    /\ task = [t \in Tasks |-> IdleTask]

\* The files of the controller specification: two models and a file that is
\* no model file.
CtlFiles == {MkPath("llm", "A", ".gguf"), MkPath("llm", "B", ".GGUF"),
             MkPath("llm", "C", ".bin")}

CtlPaths == CtlFiles \cup {MkPath("llm", "D", ".gguf")}

CtlReqs == {EmptyReq} \cup {[f \in {g} |-> v] : g \in {"threads"}, v \in {8, 4}}

InitCtl ==
    /\ InitControllers
    /\ files = CtlFiles
    /\ InitRegistry
    /\ model_info = <<>>
    /\ llm_parameters = EmptyReq
    /\ sessions = <<>>
    /\ messages = <<>>
    /\ calls = [apply |-> 0, respond |-> 0]
    /\ InitDownloader

\* One controller driven by non-overlapping calls.
NextCtl ==
    \/ \E p \in CtlPaths : CallStart(1, "start", "llm", p, p.name)
    \/ \E p \in CtlPaths : CallStart(1, "switch", "llm", p, p.name)
    \/ CallStop(1, "llm")
    \/ \E r \in CtlReqs : CallUpdate(1, "llm", r)
    \/ UpdateSet(1)
    \/ ControllerStep(1)
    \/ Return(1)
    \/ \E pid \in 1..MaxLaunch : Crash(pid)

SpecCtl == InitCtl /\ [][NextCtl]_vars

\* The model selection specification: select calls, one at a time, on two
\* modes, over a store that already knows model A of the llm mode under a
\* linked spelling of its path.
SelFiles == {MkPath("llm", "A", ".gguf"), MkPath("llm", "B", ".gguf"),
             MkPath("embed", "A", ".gguf")}

SelNames == {"A", "B"}

InitSel ==
    /\ InitControllers
    /\ files = SelFiles
    /\ InitRegistry
    /\ model_info = << [model_name |-> "A", mode |-> "llm",
                        model_path |-> [MkPath("llm", "A", ".gguf") EXCEPT !.link = TRUE],
                        download_url |-> "uA", is_current |-> FALSE,
                        is_downloaded |-> TRUE] >>
    /\ llm_parameters = EmptyReq
    /\ sessions = <<>>
    /\ messages = <<>>
    /\ calls = [apply |-> 0, respond |-> 0]
    /\ InitDownloader

NextSel ==
    \/ \E n \in SelNames, u \in {"", "uB"} :
           /\ AllIdle
           /\ SelectBegin(1, n, "llm", u)
    \/ /\ AllIdle
       /\ SelectBegin(1, "A", "embed", "")
    \/ SelectStep(1)
    \/ ControllerStep(1)
    \/ Return(1)
    \/ \E pid \in 1..MaxLaunch : Crash(pid)
    \/ \E mode \in {"llm", "embed"} : DeleteFile(MkPath(mode, "A", ".gguf"))

SpecSel == InitSel /\ [][NextSel]_vars

\* The parameter change specification: apply calls on the llm mode, between
\* direct starts and stops of its controller, one call at a time.  A request
\* supplies one or two fields, each with its default value, another valid
\* value or a value out of its bound.
FieldValues(f) ==
    CASE f = "context_size" -> {0, 15360, 4096}
      [] f = "threads" -> {0, 8, 4}
      [] f = "gpu_layers" -> {-1, 0, 32}
      [] f = "batch_size" -> {0, 512, 256}
      [] f = "temperature" -> {21, 7, 20}
      [] f = "repeat_penalty" -> {-1, 11, 0}
      [] f = "max_tokens" -> {0, 2048, 1024}

InitApply ==
    /\ InitControllers
    /\ files = {MkPath("llm", "A", ".gguf")}
    /\ InitRegistry
    /\ model_info = <<>>
    /\ llm_parameters = StoredDefaults
    /\ sessions = <<>>
    /\ messages = <<>>
    /\ calls = [apply |-> 0, respond |-> 0]
    /\ InitDownloader

NextApply ==
    \/ /\ AllIdle
       /\ CallStart(1, "start", "llm", MkPath("llm", "A", ".gguf"), "A")
    \/ /\ AllIdle
       /\ CallStop(1, "llm")
    \/ \E f \in Fields, g \in Fields :
          \E v \in FieldValues(f), w \in FieldValues(g) :
             /\ AllIdle
             /\ f = g => v = w
             /\ ApplyBegin(1, [h \in {f, g} |-> IF h = f THEN v ELSE w])
    \/ ApplyStep(1)
    \/ ControllerStep(1)
    \/ Return(1)
    \/ \E pid \in 1..MaxLaunch : Crash(pid)
    \/ DeleteFile(MkPath("llm", "A", ".gguf"))

SpecApply == InitApply /\ [][NextApply]_vars

\* The chat specification: respond calls on the llm mode, one at a time,
\* while the controller of the mode is started, switched and stopped by
\* another request.
ChatMsgs ==
    {NoMsg, [role |-> "user", content |-> <<"hello">>],
     [role |-> "system", content |-> <<"hello">>]}

InitChat ==
    /\ InitControllers
    /\ files = {MkPath("llm", "A", ".gguf")}
    /\ InitRegistry
    /\ model_info = <<>>
    /\ llm_parameters = EmptyReq
    /\ sessions = [i \in {1} |-> [message_count |-> 0, total_tokens |-> 0]]
    /\ messages = <<>>
    /\ calls = [apply |-> 0, respond |-> 0]
    /\ InitDownloader

NextChat ==
    \/ \E n \in {"A", "D"} :
          CallStart(1, "start", "llm", MkPath("llm", n, ".gguf"), n)
    \/ CallStop(1, "llm")
    \/ ControllerStep(1)
    \/ Return(1)
    \/ \E sid \in {1, 2}, msg \in ChatMsgs : RespondBegin(2, sid, msg)
    \/ RespondStep(2)
    \/ Return(2)
    \/ \E pid \in 1..MaxLaunch : Crash(pid)

SpecChat == InitChat /\ [][NextChat]_vars

\* The history window specification: get_messages_within_token_limit applied
\* to a store of up to MaxHistory messages of two sessions, each message
\* with one of three token estimates, under budgets around their sums.
RECURSIVE Histories(_)
Histories(n) ==
    IF n = 0 THEN {<<>>}
    ELSE LET shorter == Histories(n - 1)
         IN  shorter \cup
             {Append(h, [session_id |-> sid, role |-> "user", content |-> <<>>,
                         token_count |-> c]) :
                 h \in {g \in shorter : Len(g) = n - 1},
                 sid \in {1, 2}, c \in {5, 10, 20}}

InitWindow ==
    /\ InitControllers
    /\ files = {}
    /\ InitRegistry
    /\ model_info = <<>>
    /\ llm_parameters = EmptyReq
    /\ messages \in Histories(MaxHistory)
    /\ sessions = [i \in {1, 2} |->
           [message_count |->
                Cardinality({k \in 1..Len(messages) : messages[k].session_id = i}),
            total_tokens |-> SumTokens(messages, i)]]
    /\ calls = [apply |-> 0, respond |-> 0]
    /\ InitDownloader

NextWindow ==
    \/ \E max_tokens \in {0, 10, 25, 41}, system_prompt_tokens \in {0, 16} :
          WindowCall(1, 1, max_tokens, system_prompt_tokens)
    \/ Return(1)

SpecWindow == InitWindow /\ [][NextWindow]_vars

\* The concurrent specification: two requests against the llm mode, one a
\* select call and the other a select call or an apply call, made while the
\* controller has not been started or while it runs model A.  Their blocking
\* start, stop and update steps run on worker threads and interleave.
RunningA ==
    [pid |-> 1, mode |-> "llm", path |-> MkPath("llm", "A", ".gguf"),
     args |-> DefaultServerParams("llm")]

InitConc ==
    /\ sparam = [m \in Modes |-> DefaultServerParams(m)]
    /\ cparam = DefaultClientParams
    /\ error_message = [m \in Modes |-> ""]
    /\ task = [t \in Tasks |-> IdleTask]
    /\ files = {MkPath("llm", "A", ".gguf"), MkPath("llm", "B", ".gguf")}
    /\ InitRegistry
    /\ llm_parameters = EmptyReq
    /\ sessions = <<>>
    /\ messages = <<>>
    /\ calls = [apply |-> 0, respond |-> 0]
    /\ InitDownloader
    /\ \/ /\ InitControllers
          /\ model_info = <<>>
       \/ /\ process = [m \in Modes |-> IF m = "llm" THEN 1 ELSE 0]
          /\ current_model = [m \in Modes |-> IF m = "llm" THEN "A" ELSE ""]
          /\ current_model_path =
                 [m \in Modes |-> IF m = "llm" THEN MkPath("llm", "A", ".gguf")
                                  ELSE NoPath]
          /\ status = [m \in Modes |-> IF m = "llm" THEN MODEL_STATUS_RUNNING
                                       ELSE MODEL_STATUS_NOT_STARTED]
          /\ procs = {RunningA}
          /\ nextPid = 2
          /\ model_info = set_current_model(
                 Upserted(<<>>, "A", MkPath("llm", "A", ".gguf"), "llm"), 1, "llm")

NextConc ==
    \/ \E n \in SelNames : SelectBegin(1, n, "llm", "")
    \/ SelectBegin(2, "B", "llm", "")
    \/ ApplyBegin(2, [f \in {"threads"} |-> 4])
    \/ \E t \in Tasks :
          \/ SelectStopped(t)
          \/ SelectStart(t)
          \/ SelectWait(t)
          \/ ApplyStep(t)
          \/ ControllerStep(t)

SpecConc == InitConc /\ [][NextConc]_vars

(***************************************************************************)
(* The restart of the application: the exit handler stops every engine,    *)
(* ModelServerManager.__init__ builds the controllers and clients anew     *)
(* with their defaults, and BackendStartupHandler.initialize loads the     *)
(* persisted parameters into them.                                         *)
(***************************************************************************)

\* get_all_parameters raises when a row does not convert.
LoadRaises(stored) == \E f \in DOMAIN stored : Converted(stored[f]).error # ""

\* _load_parameters_from_db, lines 222-239: the server parameters of a mode
\* after the load.
LoadedServerParams(stored, mode) ==
    IF stored = EmptyReq \/ LoadRaises(stored) THEN DefaultServerParams(mode)
    ELSE [f \in SFields |->
             IF f \in DOMAIN stored THEN Converted(stored[f]).value
             ELSE DefaultServerParams(mode)[f]]

\* _load_parameters_from_db, lines 243-252: the parameters of the llm client
\* after the load.
LoadedClientParams(stored) ==
    IF stored = EmptyReq \/ LoadRaises(stored) THEN DefaultClientParams
    ELSE [f \in CFields |->
             IF f \in DOMAIN stored THEN Converted(stored[f]).value
             ELSE DefaultClientParams[f]]

\* The application is restarted while no request is being served.  No record
\* is current in this specification, so initialize starts no engine.
Restart(t) ==
    /\ task[t].pc \in {"idle", "done"}
    /\ model_info = <<>>
    /\ process' = [m \in Modes |-> 0]
    /\ current_model' = [m \in Modes |-> ""]
    /\ current_model_path' = [m \in Modes |-> NoPath]
    /\ status' = [m \in Modes |-> MODEL_STATUS_NOT_STARTED]
    /\ error_message' = [m \in Modes |-> ""]
    /\ procs' = {}
    /\ sparam' = [m \in Modes |-> LoadedServerParams(llm_parameters, m)]
    /\ cparam' = LoadedClientParams(llm_parameters)
    /\ task' = [task EXCEPT ![t] =
           [Finish(NewTask("restart", "llm"), TRUE, FALSE, "") EXCEPT !.how = "returned"]]
    /\ UNCHANGED <<nextPid, files, regVars, dlVars, dbVars, chatVars>>

\* The restart specification: the application has been started on a store
\* that holds the default parameters; apply calls on the llm mode, starts
\* and stops of its controller and restarts of the application follow, one
\* at a time.
InitRestart ==
    /\ process = [m \in Modes |-> 0]
    /\ current_model = [m \in Modes |-> ""]
    /\ current_model_path = [m \in Modes |-> NoPath]
    /\ status = [m \in Modes |-> MODEL_STATUS_NOT_STARTED]
    /\ error_message = [m \in Modes |-> ""]
    /\ sparam = [m \in Modes |-> LoadedServerParams(StoredDefaults, m)]
    /\ cparam = LoadedClientParams(StoredDefaults)
    /\ procs = {}
    /\ nextPid = 1
    /\ task = [t \in Tasks |-> IdleTask]
    /\ files = {MkPath("llm", "A", ".gguf")}
    /\ InitRegistry
    /\ model_info = <<>>
    /\ llm_parameters = StoredDefaults
    /\ sessions = <<>>
    /\ messages = <<>>
    /\ calls = [apply |-> 0, respond |-> 0]
    /\ InitDownloader

NextRestart ==
    \/ /\ AllIdle
       /\ CallStart(1, "start", "llm", MkPath("llm", "A", ".gguf"), "A")
    \/ \E f \in Fields, g \in Fields :
          \E v \in FieldValues(f), w \in FieldValues(g) :
             /\ AllIdle
             /\ f = g => v = w
             /\ ApplyBegin(1, [h \in {f, g} |-> IF h = f THEN v ELSE w])
    \/ ApplyStep(1)
    \/ ControllerStep(1)
    \/ Return(1)
    \/ Restart(1)

SpecRestart == InitRestart /\ [][NextRestart]_vars

(***************************************************************************)
(* The config store called directly: set_current_model and                 *)
(* update_model_download_status on a table of three records.               *)
(***************************************************************************)

\* SQLiteConfig.set_current_model(model_id, mode): it returns True or raises
\* ValueError.
SetCurrentCall(t, model_id, mode) ==
    LET tr == [NewTask("set_current", mode) EXCEPT !.model_id = model_id]
    IN  /\ Idle(t)
        /\ model_info' = set_current_model(model_info, model_id, mode)
        /\ task' = [task EXCEPT ![t] =
               IF SetCurrentAllowed(model_info, model_id, mode)
               THEN [Finish(tr, TRUE, FALSE, "") EXCEPT !.how = "returned"]
               ELSE [Finish(tr, FALSE, FALSE, "ValueError") EXCEPT !.how = "raised"]]
        /\ UNCHANGED <<ctlVars, sparam, cparam, procs, nextPid, files, regVars, dlVars,
                       llm_parameters, chatVars>>

\* SQLiteConfig.update_model_download_status(model_id, is_downloaded)
DownloadStatusCall(t, model_id, is_downloaded) ==
    LET tr == [NewTask("download_status", "llm") EXCEPT !.model_id = model_id]
    IN  /\ Idle(t)
        /\ model_id \in 1..Len(model_info)
        /\ model_info' =
               update_model_download_status(model_info, model_id, is_downloaded)
        /\ task' = [task EXCEPT ![t] =
               [Finish(tr, TRUE, FALSE, "") EXCEPT !.how = "returned"]]
        /\ UNCHANGED <<ctlVars, sparam, cparam, procs, nextPid, files, regVars, dlVars,
                       llm_parameters, chatVars>>

StoreRecord(name, mode, is_downloaded) ==
    [model_name |-> name, mode |-> mode,
     model_path |-> MkPath(get_model_dir(mode), name, ".gguf"),
     download_url |-> "", is_current |-> FALSE, is_downloaded |-> is_downloaded]

\* Ids passed to the store: those of the three records and two of no record.
StoreIds == 0..4

InitStore ==
    /\ InitControllers
    /\ files = {}
    /\ InitRegistry
    /\ \E a, b, c \in BOOLEAN :
          model_info = << StoreRecord("A", "llm", a), StoreRecord("B", "llm", b),
                          StoreRecord("A", "embed", c) >>
    /\ llm_parameters = EmptyReq
    /\ sessions = <<>>
    /\ messages = <<>>
    /\ calls = [apply |-> 0, respond |-> 0]
    /\ InitDownloader

NextStore ==
    \/ \E model_id \in StoreIds, mode \in Modes : SetCurrentCall(1, model_id, mode)
    \/ \E model_id \in StoreIds, is_downloaded \in BOOLEAN :
          DownloadStatusCall(1, model_id, is_downloaded)
    \/ Return(1)

SpecStore == InitStore /\ [][NextStore]_vars

(***************************************************************************)
(* ModelDownloader.download_model.  The download directory is a table of   *)
(* inodes and the two names the call uses, the final path and the          *)
(* temporary path next to it; an inode holds the set of the chunks written *)
(* into it, so that a file that was unlinked or truncated while another    *)
(* call still writes to it is told from a whole one.  The coroutine runs   *)
(* without interruption between two awaits.                                *)
(***************************************************************************)

\* Chunks of the body of the model behind the URL.
StreamLen == 2

\* Calls of download_model that go past the check for the final file.
MaxDownload == 3

DlUrl == "uB"

\* file_path, lines 64-67
DlFile(url) == MkPath(get_model_dir("llm"), UrlName(url), ".gguf")

\* st_size of an inode: the end of the last chunk written into it.
StSize(chunks) ==
    IF chunks = {} THEN 0 ELSE CHOOSE n \in chunks : \A k \in chunks : k <= n

\* The file holds every chunk of the body.
Whole(chunks) == chunks = 1..StreamLen

SetDownload(url, st, err) ==
    (url :> [status |-> st, error |-> err]) @@ active_downloads

\* The except branch, lines 139-150: the task of the URL is marked failed, the
\* file at the temporary path, if there is one, is unlinked, and the
\* exception is raised again.
DownloadExcept(t, tr, err) ==
    /\ active_downloads' = SetDownload(tr.url, "failed", err)
    /\ disk' = [disk EXCEPT !.temp = 0]
    /\ task' = [task EXCEPT ![t] =
           [Finish(tr, FALSE, FALSE, err) EXCEPT !.how = "raised", !.fd = 0]]
    /\ UNCHANGED files

\* Lines 64-101: the final file is there and is returned, or a file left at
\* the temporary path is unlinked, the download is registered and the request
\* is sent.
DownloadBegin(t, url) ==
    LET tr == [NewTask("download", "llm") EXCEPT !.url = url, !.path = DlFile(url)]
    IN  /\ Idle(t)
        /\ IF Exists(DlFile(url))
           THEN /\ task' = [task EXCEPT ![t] =
                       [Finish(tr, TRUE, FALSE, "") EXCEPT !.how = "returned"]]
                /\ UNCHANGED <<disk, active_downloads>>
           ELSE /\ disk.started < MaxDownload
                /\ disk' = [disk EXCEPT !.temp = 0, !.started = @ + 1]
                /\ active_downloads' = SetDownload(url, "downloading", "")
                /\ task' = [task EXCEPT ![t] = [tr EXCEPT !.pc = "dl_request"]]
        /\ UNCHANGED <<download_dir, ctlVars, sparam, cparam, procs, nextPid, files, regVars, dbVars,
                       chatVars>>

\* Lines 101-110: the response arrives, with a content-length or without
\* one, and open(temp_path, 'wb') makes the file or truncates the one that
\* is there.
DownloadOpen(t) ==
    LET tr == task[t]
        inode == IF disk.temp = 0 THEN Len(disk.data) + 1 ELSE disk.temp
    IN  /\ tr.pc = "dl_request"
        /\ \E total_size \in {0, StreamLen} :
              task' = [task EXCEPT ![t] =
                  [tr EXCEPT !.pc = "dl_stream", !.fd = inode,
                             !.downloaded = 0, !.total_size = total_size]]
        /\ disk' = [disk EXCEPT
               !.temp = inode,
               !.data = IF disk.temp = 0 THEN Append(disk.data, {})
                        ELSE [disk.data EXCEPT ![inode] = {}]]
        /\ UNCHANGED <<download_dir, ctlVars, sparam, cparam, procs, nextPid, files, regVars, dbVars,
                       chatVars, active_downloads>>

\* Lines 110-121: a chunk is written at the position of the open file.
DownloadChunk(t) ==
    LET tr == task[t]
    IN  /\ tr.pc = "dl_stream"
        /\ tr.downloaded < StreamLen
        /\ disk' = [disk EXCEPT !.data[tr.fd] = @ \cup {tr.downloaded + 1}]
        /\ task' = [task EXCEPT ![t] = [tr EXCEPT !.downloaded = @ + 1]]
        /\ UNCHANGED <<download_dir, ctlVars, sparam, cparam, procs, nextPid, files, regVars, dbVars,
                       chatVars, active_downloads>>

\* Lines 109-110 and 96-101: the body has ended, the file is closed and the
\* response and the client are closed.
DownloadClose(t) ==
    LET tr == task[t]
    IN  /\ tr.pc = "dl_stream"
        /\ tr.downloaded = StreamLen
        /\ task' = [task EXCEPT ![t] = [tr EXCEPT !.pc = "dl_verify", !.fd = 0]]
        /\ UNCHANGED <<ctlVars, sparam, cparam, procs, nextPid, files, regVars, dbVars,
                       chatVars, dlVars>>

\* Lines 124-129: with a declared length, the size of the file at the
\* temporary path is that length.
SizeMatches(total_size) ==
    total_size > 0 => StSize(disk.data[disk.temp]) = total_size

\* Lines 123-137: the size check, the rename to the final path and the
\* completed status; stat and rename raise when no file is at the temporary
\* path.
DownloadVerify(t) ==
    LET tr == task[t]
    IN  /\ tr.pc = "dl_verify"
        /\ IF disk.temp = 0
           THEN DownloadExcept(t, tr, "no_such_file")
           ELSE IF ~SizeMatches(tr.total_size)
           THEN DownloadExcept(t, tr, "incomplete")
           ELSE /\ disk' = [disk EXCEPT !.final = disk.temp, !.temp = 0]
                /\ files' = files \cup {Resolve(tr.path)}
                /\ active_downloads' = SetDownload(tr.url, "completed", "")
                /\ task' = [task EXCEPT ![t] =
                       [Finish(tr, TRUE, FALSE, "") EXCEPT !.how = "returned"]]
        /\ UNCHANGED <<download_dir, ctlVars, sparam, cparam, procs, nextPid, regVars, dbVars, chatVars>>

\* Lines 96-121 and 139-150: the request or the stream raises.
DownloadFail(t) ==
    LET tr == task[t]
    IN  /\ tr.pc \in {"dl_request", "dl_stream"}
        /\ DownloadExcept(t, tr, "network")
        /\ UNCHANGED <<download_dir, ctlVars, sparam, cparam, procs, nextPid, regVars, dbVars, chatVars>>

\* Line 139: the coroutine is cancelled while it waits; CancelledError is no
\* Exception, so the except branch does not run.
DownloadCancel(t) ==
    /\ task[t].pc \in {"dl_request", "dl_stream", "dl_verify"}
    /\ task' = [task EXCEPT ![t] = IdleTask]
    /\ UNCHANGED <<ctlVars, sparam, cparam, procs, nextPid, files, regVars, dbVars,
                   chatVars, dlVars>>

\* The download specification: two requests for the model behind one URL,
\* whose file is not on the disk.
InitDownload ==
    /\ InitControllers
    /\ files = {}
    /\ InitRegistry
    /\ model_info = <<>>
    /\ llm_parameters = EmptyReq
    /\ sessions = <<>>
    /\ messages = <<>>
    /\ calls = [apply |-> 0, respond |-> 0]
    /\ InitDownloader

NextDownload ==
    \E t \in Tasks :
        \/ DownloadBegin(t, DlUrl)
        \/ DownloadOpen(t)
        \/ DownloadChunk(t)
        \/ DownloadClose(t)
        \/ DownloadVerify(t)
        \/ DownloadFail(t)
        \/ DownloadCancel(t)
        \/ Return(t)

SpecDownload == InitDownload /\ [][NextDownload]_vars

(***************************************************************************)
(* Shutdown: ModelServerManager.stop_all and BackendExitHandler.           *)
(***************************************************************************)

\* The order of self.servers, a dict filled in ModelServerManager.__init__.
ServerOrder == <<"llm", "embed", "rerank">>

\* await server_manager.stop_all(): each controller's stop in turn.
CallStopAll(t) ==
    /\ Idle(t)
    /\ task' = [task EXCEPT ![t] =
           StopAllNext([NewTask("stop_all", "llm") EXCEPT !.servers = ServerOrder], TRUE)]
    /\ UNCHANGED <<ctlVars, sparam, cparam, procs, nextPid, files, regVars, dlVars, dbVars, chatVars>>

\* What a BackendExitHandler is constructed with: an LLMServer (the handler's
\* own parameter, and its test), or the ModelServerManager (main.py).
ExitTargets == {"llm_server", "server_manager"}

\* BackendExitHandler._cleanup: self.llm_server.stop_server().  The manager
\* has no stop_server: the AttributeError is caught and logged, and nothing is
\* stopped.
Cleanup(t, target) ==
    /\ Idle(t)
    /\ task' = [task EXCEPT ![t] =
           IF target = "llm_server"
           THEN [NewTask("cleanup", "llm") EXCEPT !.pc = "st_term", !.stopret = "ret"]
           ELSE Finish([NewTask("cleanup", "llm") EXCEPT !.how = "error"],
                       FALSE, FALSE, "AttributeError")]
    /\ UNCHANGED <<ctlVars, sparam, cparam, procs, nextPid, files, regVars, dlVars, dbVars, chatVars>>

InitExit ==
    /\ InitControllers
    /\ files = {MkPath(m, "A", ".gguf") : m \in Modes}
    /\ InitRegistry
    /\ model_info = <<>>
    /\ llm_parameters = StoredDefaults
    /\ sessions = <<>>
    /\ messages = <<>>
    /\ calls = [apply |-> 0, respond |-> 0]
    /\ InitDownloader

NextExit ==
    \/ \E mode \in Modes : CallStart(1, "start", mode, MkPath(mode, "A", ".gguf"), "A")
    \/ ControllerStep(1)
    \/ Return(1)
    \/ \E pid \in 1..MaxLaunch : Crash(pid)
    \/ CallStopAll(1)
    \/ \E target \in ExitTargets : Cleanup(1, target)

SpecExit == InitExit /\ [][NextExit]_vars

(***************************************************************************)
(* ModelServerManager.get_server and get_client.                           *)
(***************************************************************************)

\* The mode strings a caller passes: the three modes, the empty string, a
\* mode in capitals and a word that is no mode.
ModeStrings == Modes \cup {"", "LLM", "chat"}

\* A membership test that knows the llm mode only: a mutant of ModeKnown.
ModeKnownLlm(registry, mode) == mode = "llm"

\* mode in self.servers, mode in self.clients
ModeKnown(registry, mode) == mode \in DOMAIN registry

\* get_server and get_client are the same lines over the two dicts: ValueError
\* for a key that is not there, else the entry.
Lookup(registry, mode) ==
    IF ~ModeKnown(registry, mode)
    THEN [error |-> "ValueError", value |-> NoEntry]
    ELSE [error |-> "", value |-> registry[mode]]

get_server(mode) == Lookup(servers, mode)

get_client(mode) == Lookup(clients, mode)

Got(op, mode, r) ==
    Finish([IdleTask EXCEPT !.op = op, !.name = mode, !.got = r.value,
                            !.how = IF r.error = "" THEN "returned" ELSE "raised"],
           r.error = "", FALSE, r.error)

GetServer(t, mode) ==
    /\ Idle(t)
    /\ task' = [task EXCEPT ![t] = Got("get_server", mode, get_server(mode))]
    /\ UNCHANGED <<ctlVars, sparam, cparam, procs, nextPid, files, regVars,
                   dlVars, dbVars, chatVars>>

GetClient(t, mode) ==
    /\ Idle(t)
    /\ task' = [task EXCEPT ![t] = Got("get_client", mode, get_client(mode))]
    /\ UNCHANGED <<ctlVars, sparam, cparam, procs, nextPid, files, regVars,
                   dlVars, dbVars, chatVars>>

NextRegistry ==
    \/ \E mode \in ModeStrings : GetServer(1, mode)
    \/ \E mode \in ModeStrings : GetClient(1, mode)
    \/ \E mode \in Modes : CallStart(1, "start", mode, MkPath(mode, "A", ".gguf"), "A")
    \/ ControllerStep(1)
    \/ Return(1)
    \/ CallStopAll(1)

SpecRegistry == InitExit /\ [][NextRegistry]_vars

(***************************************************************************)
(* TokenEstimator.estimate_tokens, character by character.  A string is a  *)
(* sequence of characters, one for each class the regular expressions of   *)
(* the method tell apart: a letter, a digit, the underscore (a word        *)
(* character that is no letter and no digit), a space (no word character)  *)
(* and a Chinese character (a word character of the Chinese ranges).       *)
(***************************************************************************)

Chars == {"a", "1", "_", " ", "zh"}
MaxText == 3       \* characters in an estimated string

Strings == UNION {[1..n -> Chars] : n \in 0..MaxText}

\* [a-zA-Z], \d, the Chinese ranges of line 46, and \w of a str pattern
Letters == {"a"}
DigitChars == {"1"}
ChineseChars == {"zh"}
WordChars == {"a", "1", "_", "zh"}

\* \b before position i (after position i - 1) of s
Boundary(s, i) ==
    LET before == i > 1 /\ s[i - 1] \in WordChars
        after == i <= Len(s) /\ s[i] \in WordChars
    IN  before # after

\* The maximal runs of the characters of a class, as pairs of their ends.
Runs(s, class) ==
    {r \in (1..Len(s)) \X (1..Len(s)) :
        /\ r[1] <= r[2]
        /\ \A k \in r[1]..r[2] : s[k] \in class
        /\ r[1] = 1 \/ s[r[1] - 1] \notin class
        /\ r[2] = Len(s) \/ s[r[2] + 1] \notin class}

\* re.findall(r'\b[a-zA-Z]+\b', text): a run of letters is found when a word
\* boundary is on each side of it; between two letters there is none, so no
\* part of a run that touches a digit, an underscore or a Chinese character
\* is found.
EnglishWords(s) ==
    {r \in Runs(s, Letters) : Boundary(s, r[1]) /\ Boundary(s, r[2] + 1)}

\* re.findall(r'\d+', text)
Numbers(s) == Runs(s, DigitChars)

CountOf(s, class) == Cardinality({i \in 1..Len(s) : s[i] \in class})

\* Lines 42-66, the ratios 1.8, 1.3, 0.5 and 1.0 in tenths.
EstimateTokens(s) ==
    LET chinese_chars == CountOf(s, ChineseChars)
        english_words == Cardinality(EnglishWords(s))
        numbers == Cardinality(Numbers(s))
        other_chars == Len(s) - chinese_chars - CountOf(s, Letters \cup DigitChars)
        total_tokens == 18 * chinese_chars + 13 * english_words
                        + 5 * numbers + 10 * other_chars
    IN  IF s = <<>> THEN 0 ELSE total_tokens \div 10 + 1

\* estimate_tokens(text) is called.
Estimate(t, s) ==
    /\ Idle(t)
    /\ task' = [task EXCEPT ![t] =
           Finish([IdleTask EXCEPT !.op = "estimate", !.text = s,
                                   !.estimate = EstimateTokens(s)],
                  TRUE, FALSE, "")]
    /\ UNCHANGED <<ctlVars, sparam, cparam, procs, nextPid, files, regVars,
                   dlVars, dbVars, chatVars>>

NextTokens ==
    \/ \E s \in Strings : Estimate(1, s)
    \/ Return(1)

SpecTokens == InitExit /\ [][NextTokens]_vars

(***************************************************************************)
(* Model resolution over the stores and directories it can meet: a record  *)
(* or none, with a URL or without, its file and the files named after the  *)
(* model there or not.                                                     *)
(***************************************************************************)

\* A file outside the directory of the mode, where a record can point.
ElsewherePath == MkPath("elsewhere", "A", ".gguf")

ResolveFiles == {ElsewherePath, MkPath("llm", "A", ".gguf"), MkPath("llm", "A", ".GGUF")}

ResolveRecord(url) ==
    [model_name |-> "A", mode |-> "llm", model_path |-> ElsewherePath,
     download_url |-> url, is_current |-> FALSE, is_downloaded |-> TRUE]

InitResolve ==
    /\ InitControllers
    /\ files \in SUBSET ResolveFiles
    /\ InitRegistry
    /\ model_info \in {<<>>} \cup {<<ResolveRecord(url)>> : url \in {"", "uA"}}
    /\ llm_parameters = EmptyReq
    /\ sessions = <<>>
    /\ messages = <<>>
    /\ calls = [apply |-> 0, respond |-> 0]
    /\ InitDownloader

NextResolve ==
    \/ \E u \in {"", "uB"} :
           /\ AllIdle
           /\ SelectBegin(1, "A", "llm", u)
    \/ SelectStep(1)
    \/ ControllerStep(1)
    \/ Return(1)
    \/ \E p \in ResolveFiles : DeleteFile(p)

SpecResolve == InitResolve /\ [][NextResolve]_vars

(***************************************************************************)
(* respond over stores that hold a context size, or none, and a session    *)
(* with a history.                                                         *)
(***************************************************************************)

\* Context sizes that apply has stored: the default, a smaller one, and one
\* whose half leaves room for one message next to the system prompt.
BudgetContextSizes == {15360, 4096, 50}

BudgetHistory ==
    UserMessageSaved(UserMessageSaved(<<>>, 1, [role |-> "user", content |-> <<"hello">>]),
                     1, [role |-> "assistant", content |-> <<"hello">>])

InitBudget ==
    /\ InitControllers
    /\ files = {MkPath("llm", "A", ".gguf")}
    /\ InitRegistry
    /\ model_info = <<>>
    /\ llm_parameters \in {EmptyReq} \cup
           {Persisted(StoredDefaults, [f \in {"context_size"} |-> v]) :
                v \in BudgetContextSizes}
    /\ messages = BudgetHistory
    /\ sessions = update_session_stats(
                      [i \in {1} |-> [message_count |-> 0, total_tokens |-> 0]],
                      BudgetHistory, 1)
    /\ calls = [apply |-> 0, respond |-> 0]
    /\ InitDownloader

NextBudget ==
    \/ CallStart(1, "start", "llm", MkPath("llm", "A", ".gguf"), "A")
    \/ ControllerStep(1)
    \/ Return(1)
    \/ \E msg \in ChatMsgs : RespondBegin(2, 1, msg)
    \/ RespondStep(2)
    \/ Return(2)

SpecBudget == InitBudget /\ [][NextBudget]_vars

(***************************************************************************)
(* start and select under fair scheduling: the worker thread of a start    *)
(* and the coroutine of a select go on when they can (their sleeps and     *)
(* their requests with a timeout return).  The engine may never answer     *)
(* its health endpoint, and may exit at any time.                          *)
(***************************************************************************)

NextLive ==
    \/ \E p \in {MkPath("llm", "A", ".gguf"), MkPath("llm", "D", ".gguf")} :
           CallStart(1, "start", "llm", p, p.name)
    \/ \E n \in SelNames : SelectBegin(1, n, "llm", "")
    \/ SelectStep(1)
    \/ ControllerStep(1)
    \/ Return(1)
    \/ \E pid \in 1..MaxLaunch : Crash(pid)
    \/ DeleteFile(MkPath("llm", "A", ".gguf"))

SpecLive ==
    /\ InitSel
    /\ [][NextLive]_vars
    /\ WF_vars(ControllerStep(1))
    /\ WF_vars(SelectStep(1))

(***************************************************************************)
(* Two respond calls on one session while the llm engine runs.  What       *)
(* process_chat does before it returns the stream has no await in it; the  *)
(* turns of the two generators interleave.                                 *)
(***************************************************************************)

\* The message of each of the two calls.
PairMsg(t) ==
    [role |-> "user", content |-> IF t = 1 THEN <<"hello">> ELSE <<"bye">>]

InitPair ==
    /\ process = [m \in Modes |-> IF m = "llm" THEN 1 ELSE 0]
    /\ current_model = [m \in Modes |-> IF m = "llm" THEN "A" ELSE ""]
    /\ current_model_path =
           [m \in Modes |-> IF m = "llm" THEN MkPath("llm", "A", ".gguf") ELSE NoPath]
    /\ status = [m \in Modes |-> IF m = "llm" THEN MODEL_STATUS_RUNNING
                                 ELSE MODEL_STATUS_NOT_STARTED]
    /\ error_message = [m \in Modes |-> ""]
    /\ sparam = [m \in Modes |-> DefaultServerParams(m)]
    /\ cparam = DefaultClientParams
    /\ procs = {RunningA}
    /\ nextPid = 2
    /\ task = [t \in Tasks |-> IdleTask]
    /\ files = {MkPath("llm", "A", ".gguf")}
    /\ InitRegistry
    /\ model_info = <<>>
    /\ llm_parameters = EmptyReq
    /\ sessions = [i \in {1} |-> [message_count |-> 0, total_tokens |-> 0]]
    /\ messages = <<>>
    /\ calls = [apply |-> 0, respond |-> MaxRespond - Cardinality(Tasks)]
    /\ InitDownloader

NextPair ==
    \/ \E t \in Tasks : RespondBegin(t, 1, PairMsg(t))
    \/ \E t \in Tasks : RespondStep(t)

SpecPair == InitPair /\ [][NextPair]_vars

(***************************************************************************)
(* The downloader's directory.  One ModelDownloader, built on the llm mode's *)
(* directory, serves select_model, which awaits the download, and the      *)
(* download endpoint, which leaves it to a task of the event loop.  Each   *)
(* sets download_dir to the mode's directory and sets it back; a download  *)
(* takes the directory it finds when it begins, and is suspended while the *)
(* file is fetched.                                                        *)
(***************************************************************************)

\* ModelDownloader.download_model, lines 64-67: the file a download that
\* begins now writes.
DownloadFile(url) == MkPath(download_dir, UrlName(url), ".gguf")

\* _download_model, lines 168-178, and download_model up to its first await:
\* the directory is saved and set to the mode's; a file that is there already
\* is returned and the directory is set back, or the fetch begins.
DownloadModelBegin(t) ==
    LET tr == task[t]
        mode_dir == get_model_dir(tr.mode)
        file_path == MkPath(mode_dir, UrlName(tr.url), ".gguf")
    IN  /\ tr.pc = "sel_download"
        /\ IF Exists(file_path)
           THEN /\ task' = [task EXCEPT ![t] =
                       [tr EXCEPT !.pc = "sel_downloaded", !.path = file_path]]
                /\ UNCHANGED download_dir
           ELSE /\ download_dir' = mode_dir
                /\ task' = [task EXCEPT ![t] =
                       [tr EXCEPT !.pc = "sel_fetch", !.path = file_path,
                                  !.original_download_dir = download_dir]]
        /\ UNCHANGED <<ctlVars, sparam, cparam, procs, nextPid, files, regVars, dbVars,
                       chatVars, disk, active_downloads>>

\* _download_model, lines 178-189: the download has returned its path and the
\* saved directory is set back; or it has raised, and the except branch
\* returns None with the directory as it is.
DownloadModelEnd(t) ==
    LET tr == task[t]
    IN  /\ tr.pc = "sel_fetch"
        /\ \/ /\ files' = files \cup {tr.path}
              /\ download_dir' = tr.original_download_dir
              /\ task' = [task EXCEPT ![t] = [tr EXCEPT !.pc = "sel_downloaded"]]
           \/ /\ task' = [task EXCEPT ![t] = Finish(tr, FALSE, FALSE, "download_failed")]
              /\ UNCHANGED <<files, download_dir>>
        /\ UNCHANGED <<ctlVars, sparam, cparam, procs, nextPid, regVars, dbVars, chatVars,
                       disk, active_downloads>>

\* The download endpoint, main.py lines 388-415: the directory is set to the
\* mode's, the download is handed to a new task of the event loop, which has
\* not run yet, and the directory is set back before the endpoint answers.
EndpointDownload(t, mode, url) ==
    /\ Idle(t)
    /\ task' = [task EXCEPT ![t] =
           [NewTask("download", mode) EXCEPT !.url = url, !.pc = "dl_created"]]
    /\ UNCHANGED <<ctlVars, sparam, cparam, procs, nextPid, files, regVars, dbVars,
                   chatVars, dlVars>>

\* The created task begins: download_model, lines 64-72.
CreatedTaskBegin(t) ==
    LET tr == task[t]
        file_path == DownloadFile(tr.url)
    IN  /\ tr.pc = "dl_created"
        /\ task' = [task EXCEPT ![t] =
               IF Exists(file_path)
               THEN Finish([tr EXCEPT !.path = file_path], TRUE, FALSE, "")
               ELSE [tr EXCEPT !.pc = "dl_fetch", !.path = file_path]]
        /\ UNCHANGED <<ctlVars, sparam, cparam, procs, nextPid, files, regVars, dbVars,
                       chatVars, dlVars>>

\* The created task ends: the file is written, or the download has raised.
CreatedTaskEnd(t) ==
    LET tr == task[t]
    IN  /\ tr.pc = "dl_fetch"
        /\ \/ /\ files' = files \cup {tr.path}
              /\ task' = [task EXCEPT ![t] = Finish(tr, TRUE, FALSE, "")]
           \/ /\ task' = [task EXCEPT ![t] = Finish(tr, FALSE, FALSE, "download_failed")]
              /\ UNCHANGED files
        /\ UNCHANGED <<ctlVars, sparam, cparam, procs, nextPid, regVars, dbVars, chatVars,
                       dlVars>>

\* The directory specification: two tasks, each with one select call or one
\* download request of one of two modes, overlapping, on a machine whose
\* model directories are empty.
DirModes == {"llm", "embed"}

InitDir ==
    /\ InitControllers
    /\ files = {}
    /\ InitRegistry
    /\ model_info = <<>>
    /\ llm_parameters = EmptyReq
    /\ sessions = <<>>
    /\ messages = <<>>
    /\ calls = [apply |-> 0, respond |-> 0]
    /\ InitDownloader

NextDir ==
    \/ \E t \in Tasks, mode \in DirModes, url \in URLs :
           SelectBegin(t, UrlName(url), mode, url)
    \/ \E t \in Tasks, mode \in DirModes : EndpointDownload(t, mode, "uA")
    \/ \E t \in Tasks :
          \/ DownloadModelBegin(t)
          \/ DownloadModelEnd(t)
          \/ CreatedTaskBegin(t)
          \/ CreatedTaskEnd(t)
          \/ SelectDownloaded(t)
          \/ SelectStopped(t)
          \/ SelectStart(t)
          \/ SelectWait(t)
          \/ ControllerStep(t)

SpecDir == InitDir /\ [][NextDir]_vars

(***************************************************************************)
(* Two modes side by side: select, stop and update_parameters calls on the *)
(* llm and the embed mode, one call at a time, and the file of a model     *)
(* that can be fetched again may be deleted.                               *)
(***************************************************************************)
FrameModes == {"llm", "embed"}

NextFrame ==
    \/ \E n \in SelNames : SelectBegin(1, n, "llm", "")
    \/ SelectBegin(1, "A", "embed", "")
    \/ \E mode \in FrameModes : CallStop(1, mode)
    \/ \E mode \in FrameModes, r \in CtlReqs : CallUpdate(1, mode, r)
    \/ UpdateSet(1)
    \/ SelectStep(1)
    \/ ControllerStep(1)
    \/ Return(1)
    \/ DeleteFile(MkPath("llm", "A", ".gguf"))

SpecFrame == InitSel /\ [][NextFrame]_vars

(***************************************************************************)
(* Properties                                                              *)
(***************************************************************************)

\* C1: for every mode, at every moment, at most one engine process launched
\* by the orchestrator is alive, also while two select calls, or a select
\* call and an apply call, run concurrently against the mode.
C1_AtMostOneProcessPerMode ==
    \A mode \in Modes : Cardinality(AliveOf(mode)) <= 1

\* C2: one controller driven by non-overlapping start, stop, switch and
\* update_parameters calls never has more than one of its engine processes
\* alive, and spawns a process only when none of its processes is alive.
C2_SingleProcessPerController ==
    /\ \A m \in Modes : Cardinality(AliveOf(m)) <= 1
    /\ \A t \in Tasks : task[t].pc = "ss_popen" => AliveOf(task[t].mode) = {}

\* A call that found a live process has replaced it by a new one.
C2_Witness ==
    /\ task[1].pc = "done"
    /\ task[1].op \in {"start", "switch", "update"}
    /\ task[1].result.success
    /\ task[1].pre.alive
    /\ nextPid = task[1].pre.nextPid + 1
    /\ Cardinality(AliveOf("llm")) = 1

\* The controller of the mode is RUNNING the file that path names.
RunningModel(mode, path) ==
    /\ status[mode] = MODEL_STATUS_RUNNING
    /\ IsRunning(mode)
    /\ Resolve(current_model_path[mode]) = Resolve(path)

C4_SwitchStopsThenStarts ==
    [][\A t \in Tasks :
          /\ ( task[t].op = "select" /\ task[t].pc = "ss_popen" /\ nextPid' # nextPid )
             => AliveOf(task[t].mode) = {}
          /\ ( /\ task[t].op = "select"
               /\ task[t].pc # "done"
               /\ task'[t].pc = "done"
               /\ task'[t].result.success
               /\ task[t].pre.alive
               /\ Resolve(task[t].pre.path) # Resolve(task[t].path) )
             => /\ current_model_path'[task[t].mode] = task[t].path
                /\ Cardinality({p \in procs' : p.mode = task[t].mode}) = 1
                /\ \E p \in procs' : p.pid = process'[task[t].mode] ]_vars

\* A select has switched a running controller to another model.
C4_Witness ==
    /\ task[1].pc = "done"
    /\ task[1].op = "select"
    /\ task[1].result.success
    /\ task[1].pre.alive
    /\ task[1].pre.path # NoPath
    /\ Resolve(task[1].pre.path) # Resolve(task[1].path)
    /\ nextPid = task[1].pre.nextPid + 1
    /\ task[1].how # ""

\* C5: at most one record of each mode is marked current, and when a select
\* has returned success the one current record of its mode is the record of
\* the model it selected.
C5_OneCurrentPerMode ==
    /\ \A m \in Modes :
          Cardinality({i \in 1..Len(model_info) :
              model_info[i].mode = m /\ model_info[i].is_current}) <= 1
    /\ \A t \in Tasks :
          ( task[t].op = "select" /\ task[t].pc = "done" /\ task[t].result.success )
          => CurrentNames(task[t].mode) = {task[t].name}

\* A second successful select of the mode, for another model than the one
\* that was current.
C5_Witness ==
    /\ task[1].pc = "done"
    /\ task[1].op = "select"
    /\ task[1].result.success
    /\ task[1].pre.current # ""
    /\ task[1].pre.current # task[1].name
    /\ \E i \in 1..Len(model_info) :
          /\ model_info[i].model_name = task[1].pre.current
          /\ model_info[i].mode = task[1].mode
          /\ ~model_info[i].is_current


\* The server fields of a finished or running apply call that differed from
\* the controller's values when the call began.
PreServerChanges(tr) ==
    {f \in SFields \cap DOMAIN tr.req : tr.req[f] # tr.pre.sparam[f]}

\* C6: while and after an apply call none of whose supplied server fields
\* differed from the controller's value, the controller owns the process it
\* owned when the call began, no process has been launched, and the call
\* reports that no restart took place.
C6_NoServerChangeNoRestart ==
    \A t \in Tasks :
        (task[t].op = "apply" /\ PreServerChanges(task[t]) = {})
            => /\ process["llm"] = task[t].pre.process
               /\ nextPid = task[t].pre.nextPid
               /\ status["llm"] = task[t].pre.status
               /\ task[t].pc = "done" => ~task[t].result.requires_restart

\* An apply call that resubmitted a server field with its live value,
\* together with a changed client field, has succeeded while the engine ran.
C6_Witness ==
    \E t \in Tasks :
        /\ task[t].op = "apply" /\ task[t].pc = "done"
        /\ task[t].result.success
        /\ SFields \cap DOMAIN task[t].req # {}
        /\ PreServerChanges(task[t]) = {}
        /\ \E f \in CFields \cap DOMAIN task[t].req : task[t].req[f] # task[t].pre.cparam[f]
        /\ task[t].pre.alive
        /\ IsRunning("llm")

\* C7: a finished apply call reports requires_restart = true exactly when
\* some supplied server field differed from the controller's live value.
C7_RestartFlagIffServerChange ==
    \A t \in Tasks :
        (task[t].op = "apply" /\ task[t].pc = "done")
            => (task[t].result.requires_restart <=> PreServerChanges(task[t]) # {})

\* C8: an apply call with a field out of its bound returns success = false
\* and leaves the controller's parameters, the client's parameters, the
\* persisted parameters and the engine process as they were.
C8_InvalidFieldAppliesNothing ==
    \A t \in Tasks :
        (task[t].op = "apply" /\ task[t].pc = "done"
            /\ \E f \in DOMAIN task[t].req : ~FieldValid(f, task[t].req[f]))
            => /\ ~task[t].result.success
               /\ sparam["llm"] = task[t].pre.sparam
               /\ cparam = task[t].pre.cparam
               /\ llm_parameters = task[t].pre.stored
               /\ process["llm"] = task[t].pre.process
               /\ nextPid = task[t].pre.nextPid
               /\ status["llm"] = task[t].pre.status

\* An apply call with one field out of its bound and one valid server field
\* that differs from the live value has returned while the engine ran.
C8_Witness ==
    \E t \in Tasks :
        /\ task[t].op = "apply" /\ task[t].pc = "done"
        /\ \E f \in DOMAIN task[t].req : ~FieldValid(f, task[t].req[f])
        /\ \E f \in PreServerChanges(task[t]) : FieldValid(f, task[t].req[f])
        /\ task[t].pre.alive


\* C7, as the code has it: a finished apply call reports requires_restart =
\* true exactly when it succeeded and some supplied server field differed
\* from the controller's live value; a call that fails, on validation or on
\* the restart, reports false.
C7_RestartFlagIffAppliedServerChange ==
    \A t \in Tasks :
        (task[t].op = "apply" /\ task[t].pc = "done")
            => (task[t].result.requires_restart
                    <=> (task[t].result.success /\ PreServerChanges(task[t]) # {}))

\* An apply call that changed a server field while the engine ran has
\* succeeded, reports the restart, and the controller owns a new process.
C7_Witness ==
    \E t \in Tasks :
        /\ task[t].op = "apply" /\ task[t].pc = "done"
        /\ task[t].result.success /\ task[t].result.requires_restart
        /\ PreServerChanges(task[t]) # {}
        /\ task[t].pre.alive
        /\ process["llm"] # task[t].pre.process
        /\ IsRunning("llm")

\* C9: a respond call made while the state of the controller is not RUNNING
\* has failed with the server-not-running error, has persisted no message
\* and has sent no request to the engine.
C9_NotRunningFailsFast ==
    \A t \in Tasks :
        (task[t].op = "respond" /\ task[t].pre.status # MODEL_STATUS_RUNNING)
            => /\ task[t].pc = "done"
               /\ task[t].result.why = "server_not_running"
               /\ Len(messages) = task[t].pre.msgs
               /\ task[t].sent = <<>>

\* The user message of a respond call, as the session store holds it.
UserRow(tr) ==
    [session_id |-> tr.session, role |-> tr.msg.role, content |-> tr.msg.content,
     token_count |-> estimate_message_tokens(tr.msg.role, tr.msg.content)]

\* C10: once a respond call with a new user message has sent its request to
\* the engine, and from then on whether the stream completes, fails part-way
\* or fails before its first chunk, the session store holds the user message
\* as the first message persisted by the call.
C10_UserMessageSavedBeforeRequest ==
    \A t \in Tasks :
        (task[t].op = "respond" /\ task[t].msg # NoMsg /\ task[t].sent # <<>>)
            => /\ Len(messages) > task[t].pre.msgs
               /\ messages[task[t].pre.msgs + 1] = UserRow(task[t])

\* A respond call with a user message has failed before its first chunk.
C10_Witness ==
    \E t \in Tasks :
        /\ task[t].op = "respond" /\ task[t].pc = "done"
        /\ task[t].msg # NoMsg /\ task[t].sent # <<>>
        /\ task[t].result.why = "stream_error"
        /\ Len(task[t].out) = 1
        /\ messages[task[t].pre.msgs + 1] = UserRow(task[t])

\* The text contents of the chunks forwarded to the caller, in order.
RECURSIVE ForwardedText(_)
ForwardedText(out) ==
    IF out = <<>> THEN <<>>
    ELSE (IF out[1].kind = "chunk" THEN ChunkText(out[1].chunk) ELSE <<>>)
         \o ForwardedText(Tail(out))

\* The assistant messages a respond call has persisted.
AssistantRows(tr) ==
    {k \in (tr.pre.msgs + 1)..Len(messages) :
        messages[k].role = "assistant" /\ messages[k].session_id = tr.session}

\* C11: when the stream of a respond call has completed after at least one
\* chunk with text content, exactly one assistant message is persisted for
\* the call, and its content is the concatenation, in order, of the text
\* contents of the chunks forwarded to the caller.
C11_AssistantIsForwardedText ==
    \A t \in Tasks :
        ( /\ task[t].op = "respond" /\ task[t].pc = "done"
          /\ task[t].result.why = "" /\ task[t].result.success
          /\ ForwardedText(task[t].out) # <<>> )
        => /\ Cardinality(AssistantRows(task[t])) = 1
           /\ \A k \in AssistantRows(task[t]) :
                 messages[k].content = ForwardedText(task[t].out)

\* An exception has occurred in the stream of the call.
StreamFailed(tr) == \E i \in 1..Len(tr.out) : tr.out[i].kind = "error"

\* C12: once an exception has occurred in the stream of a respond call, the
\* call has ended with exactly one error event, forwarded last, no assistant
\* message is persisted for the call, and the user message persisted by the
\* call is the only message it added.
C12_StreamErrorPersistsNoAnswer ==
    \A t \in Tasks :
        (task[t].op = "respond" /\ StreamFailed(task[t]))
        => /\ task[t].pc = "done"
           /\ Cardinality({i \in 1..Len(task[t].out) : task[t].out[i].kind = "error"}) = 1
           /\ task[t].out[Len(task[t].out)].kind = "error"
           /\ AssistantRows(task[t]) = {}
           /\ IF task[t].msg = NoMsg
              THEN Len(messages) = task[t].pre.msgs
              ELSE /\ Len(messages) = task[t].pre.msgs + 1
                   /\ messages[task[t].pre.msgs + 1] = UserRow(task[t])

\* The stream of a respond call with a user message has failed after a chunk
\* whose text had been accumulated.
C12_Witness ==
    \E t \in Tasks :
        /\ task[t].op = "respond" /\ task[t].pc = "done"
        /\ StreamFailed(task[t])
        /\ task[t].acc # <<>>
        /\ Len(task[t].out) >= 2
        /\ task[t].msg # NoMsg

\* The sum of the token estimates of rows.
RECURSIVE RowTokens(_)
RowTokens(rows) ==
    IF rows = <<>> THEN 0 ELSE rows[1].token_count + RowTokens(Tail(rows))

\* The last n of rows.
Suffix(rows, n) == SubSeq(rows, Len(rows) - n + 1, Len(rows))

\* The longest suffix of rows whose token estimates sum to at most budget;
\* no message when not even the empty suffix fits.
LongestSuffix(rows, budget) ==
    LET fits == {n \in 0..Len(rows) : RowTokens(Suffix(rows, n)) <= budget}
    IN  IF fits = {} THEN <<>>
        ELSE Suffix(rows, CHOOSE n \in fits : \A k \in fits : k <= n)

C14_FinalFileIsWhole ==
    disk.final # 0 => Whole(disk.data[disk.final])


\* The step in which a call of download_model raises in mid-stream or at its
\* size check.
DownloadRaises(t) ==
    /\ task[t].op = "download"
    /\ task[t].pc \in {"dl_stream", "dl_verify"}
    /\ task'[t].pc = "done"
    /\ task'[t].how = "raised"

\* C15: when a download fails in mid-stream or at its size check, no file is
\* left at the temporary path, the task of the URL is marked failed with the
\* error recorded, the error reaches the caller, and a resolve of the model
\* made next finds no model file; stated here with a file that holds the
\* whole body, fetched by another call, let through.
C15_FailedDownloadLeavesNoFile ==
    [][\A t \in Tasks :
          DownloadRaises(t) =>
              /\ disk'.temp = 0
              /\ active_downloads'[task[t].url].status = "failed"
              /\ active_downloads'[task[t].url].error # ""
              /\ task'[t].result.why = active_downloads'[task[t].url].error
              /\ \/ (CheckModelExists(UrlName(task[t].url), "llm") = NoPath)'
                 \/ Whole(disk'.data[disk'.final])]_vars


\* The records marked current.
CurrentIds == {i \in 1..Len(model_info) : model_info[i].is_current}

\* A select call has returned success = false.
SelectFailed(t) ==
    /\ task[t].op = "select"
    /\ task[t].pc = "done"
    /\ ~task[t].result.success

\* C16: when select returns success = false, for a resolution failure, a
\* download failure, a server start failure or an exception of the store, it
\* returns a result and the set of the records marked current is the set of
\* before the call.
C16_FailedSelectKeepsCurrent ==
    \A t \in Tasks : SelectFailed(t) => CurrentIds = task[t].pre.currents

\* A select of a model fails at the store, its file gone by then, while
\* another record is marked current.
C16_Witness ==
    /\ SelectFailed(1)
    /\ task[1].result.why = "db_error"
    /\ CurrentIds # {}
    /\ \E i \in CurrentIds : model_info[i].model_name # task[1].name


\* No record of the model has a file that exists.
NoRecordWithFile(name, mode) ==
    \A i \in 1..Len(model_info) :
        (model_info[i].model_name = name /\ model_info[i].mode = mode)
            => ~Exists(model_info[i].model_path)

\* No file named after the model is in the directory of the mode.
NoFileInDir(name, mode) ==
    \A ext \in {".gguf", ".GGUF"} : ~Exists(MkPath(get_model_dir(mode), name, ext))

\* A select call begins that finds no file and has no URL, passed in or
\* stored.
SelectOfUnknown(t) ==
    /\ Idle(t)
    /\ task'[t].op = "select"
    /\ task'[t].url = ""
    /\ NoRecordWithFile(task'[t].name, task'[t].mode)
    /\ NoFileInDir(task'[t].name, task'[t].mode)

\* C17: a select that finds no record whose file exists and no file of the
\* model in the directory of the mode, and has no download URL, returns
\* success = false, stops and starts no engine process and writes nothing to
\* the config store.
C17_UnknownModelTouchesNothing ==
    [][\A t \in Tasks :
          SelectOfUnknown(t) =>
              /\ task'[t].pc = "done"
              /\ ~task'[t].result.success
              /\ UNCHANGED <<ctlVars, procs, nextPid, dbVars, files, regVars>>]_vars

\* Such a call has returned while the engine of the mode runs the model it
\* was started with.
C17_Witness ==
    /\ task[1].op = "select"
    /\ task[1].pc = "done"
    /\ task[1].result.why = "not_found"
    /\ IsRunning(task[1].mode)


\* A call of set_current_model ends in this step.
SetCurrentEnds(t) ==
    /\ Idle(t)
    /\ task'[t].op = "set_current"

StartTimedOut(t) ==
    /\ task[t].op \in {"start", "switch"}
    /\ task[t].pc = "done"
    /\ task[t].stopret = "ss_fail"

\* C19: when start runs out of health-poll retries it returns failure, the
\* controller owns no process, and the status snapshot shows ERROR with an
\* error message.
C19_StartTimeoutLeavesError ==
    \A t \in Tasks :
        StartTimedOut(t) =>
            /\ ~task[t].result.success
            /\ process[task[t].mode] = 0
            /\ status[task[t].mode] = MODEL_STATUS_ERROR
            /\ error_message[task[t].mode] # ""


\* A call of start has returned.
StartReturned(t) ==
    /\ task[t].op \in {"start", "switch"}
    /\ task[t].pc = "done"

\* What start_server reports of a failure.
StartErrors ==
    {"file_not_found", "invalid_format", "executable_not_found", "start_timeout"}

\* C20: start returns false, and does not raise, for a missing model file, a
\* wrong extension, a missing engine binary and a startup timeout, and it
\* returns true exactly when the state after the call is RUNNING with the
\* error message cleared.
C20_StartTrueIffRunning ==
    \A t \in Tasks :
        StartReturned(t) =>
            /\ task[t].result.success <=>
                   /\ status[task[t].mode] = MODEL_STATUS_RUNNING
                   /\ error_message[task[t].mode] = ""
            /\ task[t].result.success = task[t].ret
            /\ ~task[t].result.success => error_message[task[t].mode] \in StartErrors

\* A start of a file that is no model file has returned false on a
\* controller that was running a model.
C20_Witness ==
    /\ StartReturned(1)
    /\ ~task[1].result.success
    /\ error_message[task[1].mode] = "invalid_format"
    /\ task[1].pre.status = MODEL_STATUS_RUNNING


\* The step in which a call of stop returns.
StopEnds(t) ==
    /\ task[t].op = "stop"
    /\ task[t].pc \in {"st_term", "st_wait"}
    /\ task'[t].pc = "done"

\* C21: after stop returns, by the graceful, the forced or the error path, the
\* controller owns no process, its model name and path are cleared and its
\* state is STOPPED; with no process owned stop returns success and changes
\* nothing.
C21_StopClearsOwnedState ==
    [][\A t \in Tasks :
          StopEnds(t) =>
              LET m == task[t].mode
              IN  IF task[t].pc = "st_term" /\ process[m] = 0
                  THEN /\ task'[t].result.success
                       /\ UNCHANGED <<ctlVars, sparam, procs, nextPid>>
                  ELSE /\ process'[m] = 0
                       /\ current_model'[m] = ""
                       /\ current_model_path'[m] = NoPath
                       /\ status'[m] = MODEL_STATUS_STOPPED
                       /\ task'[t].how \in {"graceful", "forced", "error"}]_vars

\* stop has returned failure by the error path, for a process that was owned.
C21_Witness ==
    /\ task[1].op = "stop"
    /\ task[1].pc = "done"
    /\ task[1].how = "error"
    /\ ~task[1].result.success
    /\ task[1].pre.process # 0
    /\ status[task[1].mode] = MODEL_STATUS_STOPPED


\* The transitions of the state machine of the controller.
AllowedTransitions ==
    {<<MODEL_STATUS_NOT_STARTED, MODEL_STATUS_STARTING>>,
     <<MODEL_STATUS_STARTING, MODEL_STATUS_RUNNING>>,
     <<MODEL_STATUS_STARTING, MODEL_STATUS_ERROR>>,
     <<MODEL_STATUS_RUNNING, MODEL_STATUS_STOPPED>>,
     <<MODEL_STATUS_ERROR, MODEL_STATUS_STOPPED>>,
     <<MODEL_STATUS_STOPPED, MODEL_STATUS_STARTING>>}

\* C22: the state of a controller changes only along NOT_STARTED to STARTING,
\* STARTING to RUNNING, STARTING to ERROR, RUNNING to STOPPED, ERROR to STOPPED
\* and STOPPED to STARTING, whatever start, stop, switch and update_parameters
\* calls are made.
C22_OnlyAllowedTransitions ==
    [][\A mode \in Modes :
          status'[mode] # status[mode] =>
              <<status[mode], status'[mode]>> \in AllowedTransitions]_vars


\* An apply call has returned success = true.
ApplySucceeded(t) ==
    /\ task[t].op = "apply"
    /\ task[t].pc = "done"
    /\ task[t].result.success

\* C23: after a successful apply the config store gives back, for every
\* supplied field, changed or not, the supplied value, and the rows of the
\* fields that were not supplied are as before.
C23_SuppliedFieldsPersisted ==
    \A t \in Tasks :
        ApplySucceeded(t) =>
            /\ DOMAIN llm_parameters = DOMAIN task[t].pre.stored \cup DOMAIN task[t].req
            /\ \A f \in DOMAIN task[t].req :
                  get_parameter(llm_parameters, f) =
                      [error |-> "", value |-> task[t].req[f]]
            /\ \A f \in DOMAIN task[t].pre.stored \ DOMAIN task[t].req :
                  llm_parameters[f] = task[t].pre.stored[f]

\* A successful apply of two fields, a float that changed and an int that
\* had the live value already.
C23_Witness ==
    /\ ApplySucceeded(1)
    /\ DOMAIN task[1].req = {"temperature", "threads"}
    /\ task[1].req["temperature"] # task[1].pre.cparam["temperature"]
    /\ task[1].req["threads"] = task[1].pre.sparam["threads"]
    /\ get_parameter(task[1].pre.stored, "temperature").value
           # task[1].req["temperature"]


\* C24: when the application is restarted after a successful apply, the
\* parameters of the controller of every mode and of the client are those of
\* just before the restart.
C24_RestartKeepsParameters ==
    [][\A t \in Tasks :
          (ApplySucceeded(t) /\ task'[t].op = "restart") =>
              /\ sparam' = sparam
              /\ cparam' = cparam]_vars


\* C25: for an apply call that passes validation, every supplied client
\* field whose value differs from the client's is applied to the client,
\* whatever becomes of the update of the server parameters in the call.
C25_ClientDiffAlwaysApplied ==
    \A t \in Tasks :
        (task[t].op = "apply" /\ task[t].pc = "done"
            /\ \A f \in DOMAIN task[t].req : FieldValid(f, task[t].req[f]))
            => \A f \in CFields \cap DOMAIN task[t].req :
                   task[t].req[f] # task[t].pre.cparam[f] => cparam[f] = task[t].req[f]

\* A shutdown has run to its end: stop_all, or the exit handler's cleanup.
ShutdownDone(t) == task[t].op \in {"stop_all", "cleanup"} /\ task[t].pc = "done"

\* C26: stop_all attempts the stop of every mode's controller whatever the
\* earlier stops returned, and when a shutdown (stop_all or the exit handler's
\* cleanup) has completed no controller owns a process and no engine process
\* is alive.
C26_ShutdownStopsEverything ==
    \A t \in Tasks :
        ShutdownDone(t) =>
            /\ task[t].op = "stop_all" => task[t].visited = Modes
            /\ \A mode \in Modes : process[mode] = 0
            /\ procs = {}

\* A get_server or get_client call is made and returns or raises.
GetEnds(t) == Idle(t) /\ task'[t].op \in {"get_server", "get_client"}

\* C27: get_server and get_client return the entry registered for each of
\* the three modes and raise the invalid-mode error for any other string;
\* they leave both registries as they are, and the registries hold one
\* controller and one client for each mode, each its own, at all times.
C27_RegistryLookup ==
    [][/\ DOMAIN servers' = Modes /\ DOMAIN clients' = Modes
       /\ \A m1, m2 \in Modes :
              m1 # m2 => servers'[m1] # servers'[m2] /\ clients'[m1] # clients'[m2]
       /\ \A t \in Tasks :
              GetEnds(t) =>
                  LET tr == task'[t]
                      registered == IF tr.op = "get_server" THEN ServerOf(tr.name)
                                    ELSE ClientOf(tr.name)
                  IN  /\ UNCHANGED regVars
                      /\ IF tr.name \in Modes
                         THEN tr.how = "returned" /\ tr.got = registered
                         ELSE tr.how = "raised" /\ tr.result.why = "ValueError"
                              /\ tr.got = NoEntry]_vars

\* The embed controller was asked for and returned while an engine ran, and
\* the registries are as they were built.
C27_Witness ==
    /\ task[1].op = "get_server" /\ task[1].name = "embed"
    /\ task[1].got = ServerOf("embed")
    /\ procs # {}
    /\ servers = [mode \in Modes |-> ServerOf(mode)]

\* An unknown mode was asked for and the call raised.
C27_WitnessInvalid ==
    /\ task[1].op = "get_client" /\ task[1].name = "LLM"
    /\ task[1].how = "raised"

Larger(x, y) == IF x >= y THEN x ELSE y

\* C28: the estimate of a string that is not empty is at least 1, and the
\* estimate of a string is at least the larger of the estimates of the two
\* strings that any cut divides it into.
C28_EstimateMonotone ==
    \A t \in Tasks :
        (task[t].op = "estimate" /\ task[t].pc = "done") =>
            LET s == task[t].text
            IN  /\ s # <<>> => task[t].estimate >= 1
                /\ \A k \in 0..Len(s) :
                       task[t].estimate >=
                           Larger(EstimateTokens(SubSeq(s, 1, k)),
                                  EstimateTokens(SubSeq(s, k + 1, Len(s))))

\* update_parameters passes its lines 238-255: the values are set, and it
\* returns or calls start_server.
UpdateSets(t) ==
    task[t].op = "update" /\ task[t].pc = "up_set" /\ task'[t].pc # "up_set"

\* update_parameters returns.
UpdateEnds(t) ==
    task[t].op = "update" /\ task[t].pc # "done" /\ task'[t].pc = "done"

\* C29: update_parameters stores every supplied value in the controller.
\* With a process owned it calls start_server with the path and the name the
\* controller had, and when that succeeds the controller owns a new engine
\* on that path whose arguments are the updated values.  With no process
\* owned it launches nothing and returns success.  Every engine is launched
\* with the values the controller holds at that moment.
C29_UpdateStoresAndRestarts ==
    [][/\ \A t \in Tasks :
              LET tr == task[t]
                  m == tr.mode
              IN  /\ UpdateSets(t) =>
                         /\ \A f \in DOMAIN tr.req : sparam'[m][f] = tr.req[f]
                         /\ IF tr.pre.process # 0
                            THEN /\ task'[t].pc = "ss_check"
                                 /\ task'[t].path = tr.pre.path
                                 /\ task'[t].name = tr.pre.model
                            ELSE /\ task'[t].pc = "done"
                                 /\ task'[t].result.success
                                 /\ nextPid' = tr.pre.nextPid
                                 /\ procs' = procs
                  /\ (UpdateEnds(t) /\ tr.pre.process # 0 /\ task'[t].result.success) =>
                         /\ process'[m] \notin {0, tr.pre.process}
                         /\ current_model'[m] = tr.pre.model
                         /\ current_model_path'[m] = tr.pre.path
                         /\ \E p \in procs' :
                                /\ p.pid = process'[m]
                                /\ p.path = tr.pre.path
                                /\ p.args = sparam'[m]
                                /\ \A f \in DOMAIN tr.req : p.args[f] = tr.req[f]
       /\ \A p \in procs' \ procs : p.args = sparam[p.mode]]_vars

\* A running engine was restarted by an update that changed threads.
C29_Witness ==
    /\ task[1].op = "update" /\ task[1].pc = "done" /\ task[1].result.success
    /\ task[1].pre.process # 0
    /\ "threads" \in DOMAIN task[1].req
    /\ task[1].req["threads"] # task[1].pre.sparam["threads"]
    /\ \E p \in procs : p.pid = process["llm"] /\ p.args["threads"] = task[1].req["threads"]

\* An update made with no process owned, and the start that followed it.
C29_WitnessNextStart ==
    /\ task[1].op = "start" /\ task[1].pc = "done" /\ task[1].result.success
    /\ task[1].pre.sparam["threads"] = 4
    /\ \E p \in procs : p.pid = 1 /\ p.args["threads"] = 4

\* select_model is called and runs up to its first await.
SelectBegins(t) == Idle(t) /\ task'[t].op = "select"

\* The files named after the model, with a model-file extension, that are in
\* the directory of the mode.
NamedFiles(name, mode) ==
    {p \in {MkPath(get_model_dir(mode), name, s) : s \in {".gguf", ".GGUF"}} : Exists(p)}

\* C30: model resolution returns the path of the (name, mode) record when
\* that file exists; otherwise a file named after the model in the mode's
\* directory when there is one; a download is attempted exactly when both
\* lookups fail and a URL is known, with the URL passed in when there is one
\* and the URL of the record otherwise.
C30_ResolutionOrder ==
    [][\A t \in Tasks :
          SelectBegins(t) =>
              LET tr == task'[t]
                  id == get_model_by_name(model_info, tr.name, tr.mode)
                  stored == id # 0 /\ Exists(model_info[id].model_path)
                  named == NamedFiles(tr.name, tr.mode)
                  recordUrl == IF id # 0 THEN model_info[id].download_url ELSE ""
                  attempted == tr.pc = "sel_download"
              IN  /\ stored => tr.path = model_info[id].model_path /\ ~attempted
                  /\ (~stored /\ named # {}) => tr.path \in named /\ ~attempted
                  /\ (~stored /\ named = {}) =>
                         /\ tr.path = NoPath
                         /\ attempted <=> (tr.download_url # "" \/ recordUrl # "")
                         /\ attempted =>
                                tr.url = IF tr.download_url # "" THEN tr.download_url
                                         ELSE recordUrl]_vars

\* Both lookups failed for a model whose record has a URL, a URL was passed
\* in, and the download is attempted with the URL passed in.
C30_Witness ==
    LET id == get_model_by_name(model_info, task[1].name, task[1].mode)
    IN  /\ task[1].op = "select" /\ task[1].pc = "sel_download"
        /\ id # 0 /\ model_info[id].download_url = "uA"
        /\ task[1].download_url = "uB" /\ task[1].url = "uB"

\* The file of the record is gone and the file named after the model is used.
C30_WitnessNamed ==
    LET id == get_model_by_name(model_info, task[1].name, task[1].mode)
    IN  /\ task[1].op = "select" /\ task[1].pc \notin {"idle", "sel_download"}
        /\ id # 0 /\ ~Exists(model_info[id].model_path)
        /\ task[1].path \in NamedFiles(task[1].name, task[1].mode)

\* The wait of stop_server returns, times out or raises.
StopWaits(t) == task[t].pc = "st_wait" /\ task'[t].pc # "st_wait"

\* C31: the forceful kill is sent only after the graceful termination signal
\* and only when the wait for the process timed out; when the process exits
\* within the grace period the termination signal is the only one sent.
C31_KillOnlyAfterGrace ==
    [][\A t \in Tasks :
          /\ StopWaits(t) =>
                 /\ task[t].signals = <<"SIGTERM">>
                 /\ task'[t].how = "forced" <=>
                        task'[t].signals = <<"SIGTERM", "SIGKILL">>
                 /\ task'[t].how # "forced" => task'[t].signals = <<"SIGTERM">>
          /\ ~StopWaits(t) =>
                 \A i \in 1..Len(task'[t].signals) :
                     task'[t].signals[i] = "SIGKILL" =>
                         i <= Len(task[t].signals) /\ task[t].signals[i] = "SIGKILL"]_vars

\* A stop that had to kill: both signals were sent, in order.
C31_Witness ==
    /\ task[1].op = "stop" /\ task[1].pc = "done" /\ task[1].how = "forced"
    /\ task[1].signals = <<"SIGTERM", "SIGKILL">>
    /\ task[1].pre.alive

\* A stop whose process exited in time: no kill was sent.
C31_WitnessGraceful ==
    /\ task[1].op = "stop" /\ task[1].pc = "done" /\ task[1].how = "graceful"
    /\ task[1].signals = <<"SIGTERM">>
    /\ task[1].pre.alive

\* respond has computed its budget and windowed the history.
Budgeted(t) == task[t].op = "respond" /\ task[t].pc \notin {"idle", "done"}

\* The context window size: the stored one, the default when none is stored.
StoredContextSize ==
    IF "context_size" \in DOMAIN llm_parameters
    THEN get_parameter(llm_parameters, "context_size").value
    ELSE default_context_size

\* max_tokens - system_prompt_tokens, the budget the windower works with.
HistoryBudget(t) == task[t].max_tokens - task[t].system_prompt_tokens

\* C32 as stated: the history budget is half the context window size, rounded
\* down, minus the token estimate of the text of the system prompt.
C32_BudgetMinusTextEstimate ==
    \A t \in Tasks :
        Budgeted(t) =>
            HistoryBudget(t) =
                StoredContextSize \div 2 - estimate_tokens(default_system_prompt)

\* C32, amended: the history budget is half the context window size, rounded
\* down, minus the estimate of the system prompt as a message, which is the
\* estimate of its text plus the per-message overhead; the context window
\* size is the stored one, and the default when none is stored.
C32_BudgetMinusMessageEstimate ==
    \A t \in Tasks :
        Budgeted(t) =>
            HistoryBudget(t) =
                StoredContextSize \div 2
                    - (estimate_tokens(default_system_prompt) + role_overhead)

\* A respond on a store whose context size leaves a budget for one of the two
\* messages of the history: only the newer one is sent.
C32_Witness ==
    /\ Budgeted(2)
    /\ "context_size" \in DOMAIN llm_parameters
    /\ StoredContextSize # default_context_size
    /\ HistoryBudget(2) > 0
    /\ Len(task[2].payload) = 2 + (IF task[2].msg = NoMsg THEN 0 ELSE 1)

\* A respond on a store without a context size: the default is used.
C32_WitnessDefault ==
    /\ Budgeted(2)
    /\ "context_size" \notin DOMAIN llm_parameters
    /\ task[2].max_tokens = default_context_size \div 2

\* C33: a start call makes fewer than max_retries turns of its health loop
\* after the first, a select call fewer than max_wait turns of its wait, and
\* every start and every select call that has begun returns, with success or
\* with failure, also when the engine never becomes healthy.
C33_StartAndSelectTerminate ==
    /\ [](\A t \in Tasks :
              /\ task[t].pc = "ss_poll" => task[t].retries < max_retries
              /\ task[t].pc = "sel_wait" => task[t].retries < max_wait)
    /\ \A t \in Tasks :
           (task[t].op \in {"start", "select"}) ~> (task[t].pc = "done")

\* A start whose engine never answered: the last poll was made, the engine was
\* stopped and the call returned failure.
C33_Witness ==
    /\ task[1].op = "start" /\ task[1].pc = "done" /\ ~task[1].result.success
    /\ task[1].retries = max_retries - 1
    /\ error_message["llm"] = "start_timeout"
    /\ process["llm"] = 0

\* A select that returned failure from its wait for the server.
C33_WitnessSelect ==
    /\ task[1].op = "select" /\ task[1].pc = "done"
    /\ task[1].result.why \in {"wait_timeout", "start_failed"}

\* The rows of session sid with the given role.
RowsWith(sid, role) ==
    {k \in 1..Len(messages) : messages[k].session_id = sid /\ messages[k].role = role}

\* Both respond calls have been made and have finished.
BothFinished == \A t \in Tasks : task[t].op = "respond" /\ task[t].pc = "done"

\* The calls whose stream completed after it had forwarded some text.
Completed ==
    {t \in Tasks : /\ task[t].pc = "done" /\ ~StreamFailed(task[t])
                   /\ ForwardedText(task[t].out) # <<>>}

\* C34, the user messages: when both calls have finished, each call's user
\* message is in the store exactly once.
C34_UserMessagesOnce ==
    BothFinished =>
        \A t \in Tasks :
            Cardinality({k \in RowsWith(1, "user") : messages[k] = UserRow(task[t])}) = 1

\* C34, the statistics: when both calls have finished, the session's
\* message_count and total_tokens are the count and the sum over its rows.
C34_StatsMatchRows ==
    BothFinished =>
        /\ sessions[1].message_count = Cardinality(RowsWith(1, "user") \cup RowsWith(1, "assistant"))
        /\ sessions[1].total_tokens = SumTokens(messages, 1)

\* C34: when two respond calls on one session have both finished, each
\* call's user message is persisted exactly once, each stream that completed
\* with text has added exactly one assistant message (a stream that
\* completed without any text may have added none), and the session's
\* message_count and total_tokens are the count and the sum over its
\* persisted messages.
C34_ConcurrentRespondsPersist ==
    /\ C34_UserMessagesOnce
    /\ BothFinished =>
           /\ Cardinality(RowsWith(1, "assistant")) >= Cardinality(Completed)
           /\ Cardinality(RowsWith(1, "assistant")) <=
                  Cardinality({t \in Tasks : ~StreamFailed(task[t])})
    /\ C34_StatsMatchRows


\* The controller of the llm mode owns a process handle.
OwnsHandle == process["llm"] # 0

CurrentModelSet == current_model["llm"] # "" /\ current_model_path["llm"] # NoPath

CurrentModelClear == current_model["llm"] = "" /\ current_model_path["llm"] = NoPath

\* C35, first half: between calls the controller owns a process handle
\* exactly when its state is STARTING or RUNNING.
C35_HandleIffStartingOrRunning ==
    Idle(1) =>
        (OwnsHandle <=> status["llm"] \in {MODEL_STATUS_STARTING, MODEL_STATUS_RUNNING})

\* C35, second half: between calls the current model name and path are set
\* exactly when the controller owns a process handle.
C35_CurrentIffHandle ==
    Idle(1) => /\ OwnsHandle => CurrentModelSet
               /\ ~OwnsHandle => CurrentModelClear

\* C35: in every state between non-overlapping start, stop, switch and
\* update_parameters calls, the controller owns a process handle exactly when
\* its state is STARTING or RUNNING, and its current model name and path are
\* set exactly when it owns a process handle.
C35_HandleStateAndCurrentModel ==
    C35_HandleIffStartingOrRunning /\ C35_CurrentIffHandle


\* An apply call whose engine restart failed has returned.
ApplyRestartFailed(t) ==
    /\ task[t].op = "apply"
    /\ task[t].pc = "done"
    /\ task[t].result.why = "update_failed"

\* C36, the result: an apply whose restart failed returns success = false.
C36_FailedRestartReturnsFalse ==
    \A t \in Tasks : ApplyRestartFailed(t) => ~task[t].result.success

\* C36, the client and the store: they are as they were before the call.
C36_FailedRestartKeepsClientAndStore ==
    \A t \in Tasks :
        ApplyRestartFailed(t) =>
            /\ cparam = task[t].pre.cparam
            /\ llm_parameters = task[t].pre.stored

\* C36: when the engine restart triggered by apply has failed, apply returns
\* success = false and the parameters of the controller, of the client and
\* of the store are those of before the call.
C36_FailedRestartChangesNothing ==
    /\ C36_FailedRestartReturnsFalse
    /\ C36_FailedRestartKeepsClientAndStore
    /\ \A t \in Tasks :
          ApplyRestartFailed(t) => sparam["llm"] = task[t].pre.sparam


\* The step on which a select call returns success = true, whose
\* server_status is "running".
SelectReturnsRunning(t) ==
    /\ task[t].op = "select"
    /\ task[t].pc # "done"
    /\ task'[t].pc = "done"
    /\ task'[t].result.success

\* C37: at the moment select returns success = true with server_status
\* "running", the controller of the mode is in state RUNNING, its process is
\* alive and its current model path resolves to the resolved target path.
C37_SelectSuccessMeansRunningTarget ==
    [][\A t \in Tasks :
          SelectReturnsRunning(t) =>
              /\ status'[task[t].mode] = MODEL_STATUS_RUNNING
              /\ process'[task[t].mode] # 0
              /\ \E p \in procs' : p.pid = process'[task[t].mode]
              /\ Resolve(current_model_path'[task[t].mode]) = Resolve(task'[t].path)]_vars


\* The files a step has written.
Written == files' \ files

\* The step on which a download that task t runs for its mode writes its
\* file: the one select awaits, or the one the download endpoint created.
DownloadWrites(t) ==
    /\ task[t].pc \in {"sel_fetch", "dl_fetch"}
    /\ task'[t].pc # task[t].pc
    /\ Written # {}

\* C38, for select: a download that select awaits writes its file under the
\* directory of the mode of the call.
C38_SelectWritesUnderModeDir ==
    [][\A t \in Tasks :
          (DownloadWrites(t) /\ task[t].op = "select") =>
              \A f \in Written : f.dir = get_model_dir(task[t].mode)]_vars

\* C38: every download initiated for a mode, through select or through the
\* download endpoint, writes its file under that mode's directory.
C38_DownloadWritesUnderModeDir ==
    [][\A t \in Tasks :
          DownloadWrites(t) =>
              \A f \in Written : f.dir = get_model_dir(task[t].mode)]_vars

\* No select call is under way.
NoSelectRunning == \A t \in Tasks : task[t].op = "select" => task[t].pc = "done"

SelectReturned(t) == task[t].op = "select" /\ task[t].pc = "done"

\* C39: once a select call has returned and no other is under way, the
\* downloader's directory is the one it had before any select call began,
\* whether the downloads succeeded or failed and whether or not the select
\* calls of the two modes overlapped.
C39_DownloadDirRestored ==
    ((\E t \in Tasks : SelectReturned(t)) /\ NoSelectRunning) =>
        download_dir = get_model_dir("llm")

\* C39, without failed downloads: as above, for calls none of which failed
\* to download.
C39_RestoredWhenNoDownloadFails ==
    ( /\ \E t \in Tasks : SelectReturned(t)
      /\ NoSelectRunning
      /\ \A t \in Tasks : task[t].result.why # "download_failed" ) =>
        download_dir = get_model_dir("llm")


\* The current ModelRecords of a mode in a table.
CurrentRecords(tbl, mode) ==
    {tbl[i] : i \in {j \in 1..Len(tbl) : tbl[j].mode = mode /\ tbl[j].is_current}}

\* The mode a step of task t works on: that of the call it begins, or that
\* of the call it is in.
StepMode(t) == IF Idle(t) THEN task'[t].mode ELSE task[t].mode

\* Task t takes a step of a select, stop or update_parameters call.
FrameStep(t) ==
    /\ task'[t] # task[t]
    /\ (IF Idle(t) THEN task'[t].op ELSE task[t].op) \in {"select", "stop", "update"}

\* C40: a step of a select, stop or update_parameters call on one mode
\* leaves the state, the owned process and its engine, the parameters, the
\* current model and the current ModelRecord of every other mode as they are.
C40_OtherModesUntouched ==
    [][\A t \in Tasks :
          FrameStep(t) =>
              \A m \in Modes \ {StepMode(t)} :
                  /\ status'[m] = status[m]
                  /\ error_message'[m] = error_message[m]
                  /\ process'[m] = process[m]
                  /\ {p \in procs' : p.mode = m} = {p \in procs : p.mode = m}
                  /\ sparam'[m] = sparam[m]
                  /\ current_model'[m] = current_model[m]
                  /\ current_model_path'[m] = current_model_path[m]
                  /\ CurrentRecords(model_info', m) = CurrentRecords(model_info, m)]_vars

\* The other mode runs its current model.
RunsCurrent(m) ==
    /\ IsRunning(m)
    /\ status[m] = MODEL_STATUS_RUNNING
    /\ CurrentRecords(model_info, m) # {}

\* A select on the embed mode has succeeded, and a stop and a restarting
\* update of it has ended, while the llm mode runs its current model with
\* parameters that are not those of the embed mode.
C40_Witness ==
    /\ task[1].op = "select" /\ task[1].mode = "embed"
    /\ task[1].pc = "done" /\ task[1].result.success
    /\ RunsCurrent("llm")
    /\ sparam["llm"] # sparam["embed"]

C40_WitnessStop ==
    /\ task[1].op = "stop" /\ task[1].mode = "llm"
    /\ task[1].pc = "done" /\ task[1].pre.alive
    /\ RunsCurrent("embed")

C40_WitnessUpdate ==
    /\ task[1].op = "update" /\ task[1].mode = "embed"
    /\ task[1].pc = "done" /\ task[1].pre.alive
    /\ sparam["embed"] # task[1].pre.sparam
    /\ RunsCurrent("llm") /\ RunsCurrent("embed")

====
